---------------------------- MODULE Spec2Model ----------------------------
(***************************************************************************)
(* Model of the Airtable -> SQLite snapshot server (src/server.js).        *)
(*                                                                         *)
(* Strings whose characters matter (table and field names, storage         *)
(* identifiers) are sequences of one-character strings, so that the        *)
(* regular-expression rewrites of sanitizeColumnName and the               *)
(* case-insensitive comparisons are computed, not assumed.  Opaque         *)
(* strings (record ids, table ids, cell texts) are TLA+ strings.           *)
(***************************************************************************)
EXTENDS Integers, Sequences, FiniteSets, TLC

VARIABLES world, requests, run, fs, net, arg, out

vars == <<world, requests, run, fs, net, arg, out>>

\* The variables of the server, and those of the step-by-step evaluation of
\* its functions: the input `arg` and what was computed from it, `out`.
server == <<world, requests, run, fs, net>>
pure == <<arg, out>>

-----------------------------------------------------------------------------
(* Bounds of the model                                                     *)

\* Granularity of the clock: one Tick lets this many milliseconds pass.
TickMs == 110

\* Number of request handlers the server can be running (one per HTTP request).
MaxHandlers == 3

Handlers == 1..MaxHandlers

-----------------------------------------------------------------------------
(* Configuration (server.js, lines 11-13)                                  *)

AIRTABLE_RATE_LIMIT_DELAY == 220

-----------------------------------------------------------------------------
(* Characters and strings                                                  *)

LowerAlpha == <<"a","b","c","d","e","f","g","h","i","j","k","l","m",
                "n","o","p","q","r","s","t","u","v","w","x","y","z">>
UpperAlpha == <<"A","B","C","D","E","F","G","H","I","J","K","L","M",
                "N","O","P","Q","R","S","T","U","V","W","X","Y","Z">>
DigitChars == <<"0","1","2","3","4","5","6","7","8","9">>

Range(s) == { s[i] : i \in DOMAIN s }

\* The character class [a-zA-Z0-9_] of the regular expressions.
IsWordChar(c) ==
    c \in Range(LowerAlpha) \cup Range(UpperAlpha) \cup Range(DigitChars) \cup {"_"}

\* String.prototype.toLowerCase, one character.
ToLowerChar(c) ==
    IF c \in Range(UpperAlpha)
    THEN LowerAlpha[CHOOSE i \in DOMAIN UpperAlpha : UpperAlpha[i] = c]
    ELSE c

\* String.prototype.toLowerCase.
ToLowerCase(s) == [i \in DOMAIN s |-> ToLowerChar(s[i])]

\* The decimal digits of a natural number, as template literals print it.
RECURSIVE NumToStr(_)
NumToStr(n) ==
    IF n < 10 THEN <<DigitChars[n + 1]>>
    ELSE NumToStr(n \div 10) \o <<DigitChars[(n % 10) + 1]>>

\* s starts with prefix p.
StartsWith(s, p) == Len(s) >= Len(p) /\ SubSeq(s, 1, Len(p)) = p

-----------------------------------------------------------------------------
(* sanitizeColumnName (server.js, lines 20-32)                             *)

\* name.replace(/[^a-zA-Z0-9_]/g, '_')
ReplaceInvalid(s) == [i \in DOMAIN s |-> IF IsWordChar(s[i]) THEN s[i] ELSE "_"]

\* .replace(/_{2,}/g, '_')
RECURSIVE CollapseUnderscores(_)
CollapseUnderscores(s) ==
    IF Len(s) < 2 THEN s
    ELSE IF s[1] = "_" /\ s[2] = "_" THEN CollapseUnderscores(Tail(s))
    ELSE <<s[1]>> \o CollapseUnderscores(Tail(s))

\* .replace(/^_+/, '')
RECURSIVE StripLeading(_)
StripLeading(s) ==
    IF s # <<>> /\ s[1] = "_" THEN StripLeading(Tail(s)) ELSE s

\* .replace(/_+$/, '')
RECURSIVE StripTrailing(_)
StripTrailing(s) ==
    IF s # <<>> /\ s[Len(s)] = "_" THEN StripTrailing(SubSeq(s, 1, Len(s) - 1)) ELSE s

InvalidNamePlaceholder ==
    <<"_","i","n","v","a","l","i","d","_","n","a","m","e","_">>

\* A variant that strips whatever the length.
StripAlways(sanitized) == StripTrailing(StripLeading(sanitized))

\* A variant that keeps the leading and trailing underscores.
StripNever(sanitized) == sanitized

\* Lines 24-26: the leading and trailing underscores go, unless one character is left.
StripIfLong(sanitized) ==
    IF Len(sanitized) > 1 THEN StripTrailing(StripLeading(sanitized)) ELSE sanitized

\* Lines 28-31.
OrPlaceholder(sanitized) ==
    IF sanitized = <<>> THEN InvalidNamePlaceholder ELSE sanitized

sanitizeColumnName(name) ==
    OrPlaceholder(StripIfLong(CollapseUnderscores(ReplaceInvalid(name))))


-----------------------------------------------------------------------------
(* JavaScript values, as the Airtable API delivers them in record.fields   *)
(* and as better-sqlite3 receives them for binding: a tag k and a payload. *)

JsNull      == [k |-> "null",  v |-> 0]
JsUndefined == [k |-> "undef", v |-> 0]
JsNaN       == [k |-> "nan",   v |-> 0]
JsBool(b)   == [k |-> "bool",  v |-> b]
JsNum(n)    == [k |-> "num",   v |-> n]
JsStr(s)    == [k |-> "str",   v |-> s]
\* An array of strings (record ids, select options).
JsList(xs)  == [k |-> "list",  v |-> xs]
\* A collaborator object; an absent property is the empty string.
JsObj(name, email, id) ==
    [k |-> "obj", v |-> [name |-> name, email |-> email, id |-> id]]
\* The string JSON.stringify(x) returns.
JsJson(x)   == [k |-> "json",  v |-> x]

\* value === null || value === undefined
IsNullish(x) == x.k \in {"null", "undef"}

\* ToBoolean(x), the test of `value ? 1 : 0`.
Truthy(x) ==
    CASE x.k = "bool" -> x.v
      [] x.k = "num"  -> x.v # 0
      [] x.k = "str"  -> x.v # ""
      [] x.k \in {"null", "undef", "nan"} -> FALSE
      [] OTHER -> TRUE

\* The strings of the model that Number() parses as a number.
NumericStrings == [s \in {"", "0", "7", "12"} |->
                     CASE s = "" -> 0 [] s = "0" -> 0 [] s = "7" -> 7 [] s = "12" -> 12]

\* Number(s) for a string.
StringToNumber(s) ==
    IF s \in DOMAIN NumericStrings THEN JsNum(NumericStrings[s]) ELSE JsNaN

\* Number(value)
ToNumber(x) ==
    CASE x.k = "num"  -> x
      [] x.k = "nan"  -> JsNaN
      [] x.k = "bool" -> JsNum(IF x.v THEN 1 ELSE 0)
      [] x.k = "null" -> JsNum(0)
      [] x.k \in {"str", "json"} ->
            IF x.k = "str" THEN StringToNumber(x.v) ELSE JsNaN
      [] x.k = "list" ->
            IF x.v = <<>> THEN JsNum(0)
            ELSE IF Len(x.v) = 1 THEN StringToNumber(x.v[1]) ELSE JsNaN
      [] OTHER -> JsNaN

\* Array.prototype.join(',') of an array of strings.
RECURSIVE JoinComma(_)
JoinComma(xs) ==
    IF xs = <<>> THEN ""
    ELSE IF Len(xs) = 1 THEN xs[1]
    ELSE xs[1] \o "," \o JoinComma(Tail(xs))

\* String(value)
ToJsString(x) ==
    CASE x.k = "str"   -> x
      [] x.k = "json"  -> x
      [] x.k = "num"   -> JsStr(ToString(x.v))
      [] x.k = "nan"   -> JsStr("NaN")
      [] x.k = "bool"  -> JsStr(IF x.v THEN "true" ELSE "false")
      [] x.k = "null"  -> JsStr("null")
      [] x.k = "undef" -> JsStr("undefined")
      [] x.k = "list"  -> JsStr(JoinComma(x.v))
      [] OTHER         -> JsStr("[object Object]")

-----------------------------------------------------------------------------
(* Field options: field.options of the schema response                     *)

\* A field without an options object.
NoOptions == [has |-> FALSE, precision |-> JsUndefined, linkedTableId |-> ""]
\* options = { precision: p }
PrecisionOptions(p) == [has |-> TRUE, precision |-> JsNum(p), linkedTableId |-> ""]
\* options = { linkedTableId: t }
LinkOptions(t) == [has |-> TRUE, precision |-> JsUndefined, linkedTableId |-> t]

-----------------------------------------------------------------------------
(* mapAirtableTypeToSQLite (server.js, lines 34-58)                        *)

TextTypes == {"singleLineText", "multilineText", "richText", "email", "url",
              "phoneNumber", "singleSelect", "multipleSelects", "formula",
              "rollup", "lookup", "singleCollaborator", "multipleCollaborators",
              "createdBy", "lastModifiedBy", "attachment", "barcode", "button",
              "externalSyncSource", "aiText"}
CounterTypes == {"autonumber", "count", "rating"}
NumericTypes == {"number", "currency", "percent", "duration"}
DateTypes    == {"date", "dateTime", "createdTime", "lastModifiedTime"}

\* The type tags that have a case of their own in the switch.
KnownTypes == TextTypes \cup CounterTypes \cup NumericTypes \cup DateTypes
                \cup {"checkbox", "multipleRecordLinks"}

\* A variant that does not look at the options.
mapAirtableTypeToSQLiteNoOptions(airtableType, options) ==
    IF airtableType \in CounterTypes \cup NumericTypes \cup {"checkbox"}
    THEN "INTEGER" ELSE "TEXT"

mapAirtableTypeToSQLite(airtableType, options) ==
    CASE airtableType \in TextTypes    -> "TEXT"
      [] airtableType \in CounterTypes -> "INTEGER"
      [] airtableType \in NumericTypes ->
            IF options.has /\ options.precision.k = "num" /\ options.precision.v > 0
            THEN "REAL" ELSE "INTEGER"
      [] airtableType = "checkbox"     -> "INTEGER"
      [] airtableType \in DateTypes    -> "TEXT"
      [] airtableType = "multipleRecordLinks" -> "TEXT"
      [] OTHER -> "TEXT"

-----------------------------------------------------------------------------
(* formatValueForSQLite (server.js, lines 60-75)                           *)

\* A variant whose checkbox case comes before the test of line 62.
formatValueForSQLiteCheckboxFirst(value, airtableType, airtableOptions) ==
    IF airtableType = "checkbox" THEN JsNum(IF Truthy(value) THEN 1 ELSE 0)
    ELSE IF IsNullish(value) THEN JsNull
    ELSE IF airtableType \in NumericTypes THEN ToNumber(value)
    ELSE ToJsString(value)

formatValueForSQLite(value, airtableType, airtableOptions) ==
    IF IsNullish(value) THEN JsNull
    ELSE CASE airtableType = "checkbox" -> JsNum(IF Truthy(value) THEN 1 ELSE 0)
           [] airtableType \in {"multipleSelects", "multipleCollaborators",
                                "multipleRecordLinks", "attachment"} -> JsJson(value)
           [] airtableType = "singleCollaborator" ->
                IF value.k = "obj"
                THEN IF value.v.name # "" THEN JsStr(value.v.name)
                     ELSE IF value.v.email # "" THEN JsStr(value.v.email)
                     ELSE IF value.v.id # "" THEN JsStr(value.v.id)
                     ELSE JsUndefined
                ELSE IF value.k = "list" THEN JsUndefined
                ELSE value
           [] airtableType \in {"date", "dateTime"} -> value
           [] airtableType \in NumericTypes -> ToNumber(value)
           [] OTHER -> ToJsString(value)

-----------------------------------------------------------------------------
(* getDeDuplicatedColumnMappings (server.js, lines 77-109)                 *)

\* `${baseNameForSuffixing}_${suffix}`
SuffixedName(baseNameForSuffixing, suffix) ==
    baseNameForSuffixing \o <<"_">> \o NumToStr(suffix)

\* A variant that takes the first suffix without looking at the names in use.
FirstSuffixed(baseNameForSuffixing, usedSQLiteNames, suffix) ==
    SuffixedName(baseNameForSuffixing, suffix)

\* The while loop of lines 89-94: the first `base_<suffix>` not yet used.
RECURSIVE FirstFreeSuffixed(_, _, _)
FirstFreeSuffixed(baseNameForSuffixing, usedSQLiteNames, suffix) ==
    IF ToLowerCase(SuffixedName(baseNameForSuffixing, suffix)) \in usedSQLiteNames
    THEN FirstFreeSuffixed(baseNameForSuffixing, usedSQLiteNames, suffix + 1)
    ELSE SuffixedName(baseNameForSuffixing, suffix)

\* A variant that keeps the field's own name as the base of the suffix when
\* the name is that of the key column.
DeDuplicatedNameOwnBase(sqliteColumnName, usedSQLiteNames, existingPK) ==
    IF ToLowerCase(sqliteColumnName) \in usedSQLiteNames
    THEN FirstFreeSuffixed(sqliteColumnName, usedSQLiteNames, 1)
    ELSE sqliteColumnName

\* Lines 85-96: the final name of a field whose sanitized name is sqliteColumnName.
DeDuplicatedName(sqliteColumnName, usedSQLiteNames, existingPK) ==
    IF ToLowerCase(sqliteColumnName) = ToLowerCase(existingPK)
    THEN FirstFreeSuffixed(existingPK, usedSQLiteNames, 1)
    ELSE IF ToLowerCase(sqliteColumnName) \in usedSQLiteNames
    THEN FirstFreeSuffixed(sqliteColumnName, usedSQLiteNames, 1)
    ELSE sqliteColumnName

\* Lines 98-106: the mapping of a field under its final name.
Mapping(field, sqliteColumnName, primaryFieldId) ==
    [airtableFieldId |-> field.id, airtableName |-> field.name,
     airtableType |-> field.type, airtableOptions |-> field.options,
     sqliteName |-> sqliteColumnName,
     isAirtablePrimaryField |-> (field.id = primaryFieldId)]

\* The loop of lines 81-107; DeDupStep is its body once the name is final.
RECURSIVE DeDupLoop(_, _, _, _, _)
\* A variant that does not record the final name as used.
DeDupStepForgetting(airtableFields, primaryFieldId, existingPK, usedSQLiteNames, mappings, name) ==
    DeDupLoop(Tail(airtableFields), primaryFieldId, existingPK, usedSQLiteNames,
              Append(mappings, Mapping(Head(airtableFields), name, primaryFieldId)))

DeDupStep(airtableFields, primaryFieldId, existingPK, usedSQLiteNames, mappings, name) ==
    DeDupLoop(Tail(airtableFields), primaryFieldId, existingPK,
              usedSQLiteNames \cup {ToLowerCase(name)},
              Append(mappings, Mapping(Head(airtableFields), name, primaryFieldId)))

DeDupLoop(airtableFields, primaryFieldId, existingPK, usedSQLiteNames, mappings) ==
    IF airtableFields = <<>> THEN mappings
    ELSE DeDupStep(airtableFields, primaryFieldId, existingPK, usedSQLiteNames, mappings,
                   DeDuplicatedName(sanitizeColumnName(Head(airtableFields).name),
                                    usedSQLiteNames, existingPK))

getDeDuplicatedColumnMappings(airtableFields, primaryFieldId, existingPK) ==
    DeDupLoop(airtableFields, primaryFieldId, existingPK, {ToLowerCase(existingPK)}, <<>>)

\* generateJunctionTableName (server.js, lines 111-113)
LinkPrefix == <<"_", "l", "i", "n", "k", "_">>

generateJunctionTableName(sourceTableSqliteName, fieldSqliteName) ==
    LinkPrefix \o sourceTableSqliteName \o <<"_">> \o fieldSqliteName

-----------------------------------------------------------------------------
(* The storage engine: what better-sqlite3 / SQLite do with the statements *)
(* the server issues.  A database is its tables (one namespace, keyed by   *)
(* the lower-cased name: SQLite identifiers are case-insensitive) and the  *)
(* names of its indexes.  A row is a sequence of stored values, one per    *)
(* column of the table.                                                    *)

\* A string value whose characters are modelled (a table, field or column name).
JsName(n) == [k |-> "name", v |-> n]

EmptyDb == [tables |-> [n \in {} |-> 0], indexes |-> {}]

Col(name, type, notNull) == [name |-> name, type |-> type, notNull |-> notNull]

\* Statement.run(): better-sqlite3 binds numbers, strings and null only.
Bindable(x) == x.k \in {"null", "num", "nan", "str", "name", "json"}

\* What SQLite stores for a bound value in a column of a declared type:
\* NaN is stored as NULL, and the column's affinity converts the value.
StoredValue(x, colType) ==
    CASE x.k = "nan" -> JsNull
      [] x.k = "num" /\ colType = "TEXT" -> JsStr(ToString(x.v))
      [] x.k = "str" /\ colType \in {"INTEGER", "REAL"}
                     /\ x.v \in DOMAIN NumericStrings /\ x.v # "" ->
            JsNum(NumericStrings[x.v])
      [] OTHER -> x

SqliteReservedPrefix == <<"s", "q", "l", "i", "t", "e", "_">>

HasTable(db, name) == ToLowerCase(name) \in DOMAIN db.tables

TableOf(db, name) == db.tables[ToLowerCase(name)]

ColNamesLower(cols) == [i \in DOMAIN cols |-> ToLowerCase(cols[i].name)]

NoDuplicates(s) == \A i, j \in DOMAIN s : s[i] = s[j] => i = j

\* CREATE TABLE IF NOT EXISTS "name" (cols..., PRIMARY KEY (pk)).
\* ok = FALSE: the statement raises an error and changes nothing.
CreateTableIfNotExists(db, name, cols, pk) ==
    IF HasTable(db, name) THEN [ok |-> TRUE, db |-> db]
    ELSE IF \/ StartsWith(ToLowerCase(name), SqliteReservedPrefix)
            \/ ToLowerCase(name) \in db.indexes
            \/ ~NoDuplicates(ColNamesLower(cols))
    THEN [ok |-> FALSE, db |-> db]
    ELSE [ok |-> TRUE,
          db |-> [db EXCEPT !.tables =
                    (ToLowerCase(name) :>
                        [name |-> name, cols |-> cols, pk |-> pk, rows |-> <<>>])
                    @@ db.tables]]

\* CREATE INDEX IF NOT EXISTS idxName ON "tableName" (col).
CreateIndexIfNotExists(db, idxName, tableName, col) ==
    IF HasTable(db, idxName) THEN [ok |-> FALSE, db |-> db]
    ELSE IF ToLowerCase(idxName) \in db.indexes THEN [ok |-> TRUE, db |-> db]
    ELSE IF \/ ~HasTable(db, tableName)
            \/ ToLowerCase(col) \notin Range(ColNamesLower(TableOf(db, tableName).cols))
    THEN [ok |-> FALSE, db |-> db]
    ELSE [ok |-> TRUE, db |-> [db EXCEPT !.indexes = @ \cup {ToLowerCase(idxName)}]]

\* db.prepare('INSERT INTO "tableName" (colNames) VALUES (?, ...)') succeeds.
CanPrepareInsert(db, tableName, colNames) ==
    /\ HasTable(db, tableName)
    /\ \A i \in DOMAIN colNames :
          ToLowerCase(colNames[i]) \in Range(ColNamesLower(TableOf(db, tableName).cols))

\* The position in colNames of a column of the table, 0 when it is not named.
PositionIn(colNames, colName) ==
    IF \E i \in DOMAIN colNames : ToLowerCase(colNames[i]) = ToLowerCase(colName)
    THEN CHOOSE i \in DOMAIN colNames : ToLowerCase(colNames[i]) = ToLowerCase(colName)
    ELSE 0

\* The value an INSERT stores in a column: NULL when the column is not named.
CellValue(col, at, values) ==
    IF at = 0 THEN JsNull ELSE StoredValue(values[at], col.type)

\* The row an INSERT of `values` for `colNames` builds.
BuildRow(table, colNames, values) ==
    [c \in DOMAIN table.cols |->
        CellValue(table.cols[c], PositionIn(colNames, table.cols[c].name), values)]

\* The values of a row in the primary-key columns.
KeyOf(table, row) ==
    [i \in DOMAIN table.pk |->
        row[CHOOSE c \in DOMAIN table.cols :
               ToLowerCase(table.cols[c].name) = ToLowerCase(table.pk[i])]]

\* A table without the PRIMARY KEY constraint: no key conflicts.
KeyConflictNever(table, key) == FALSE

\* A primary key with a NULL in it conflicts with nothing.
KeyConflict(table, key) ==
    /\ \A i \in DOMAIN key : key[i].k # "null"
    /\ \E r \in DOMAIN table.rows : KeyOf(table, table.rows[r]) = key

\* The constraints of a table decide on a row that was built.
InsertBuilt(db, tableName, table, row, orIgnore) ==
    IF \/ \E c \in DOMAIN table.cols : table.cols[c].notNull /\ row[c].k = "null"
       \/ KeyConflict(table, KeyOf(table, row))
    THEN [ok |-> orIgnore, changes |-> 0, db |-> db]
    ELSE [ok |-> TRUE, changes |-> 1,
          db |-> [db EXCEPT !.tables[ToLowerCase(tableName)].rows = Append(@, row)]]

\* Statement.run(values) of a prepared INSERT [OR IGNORE].
\* ok = FALSE: run() throws (a value that cannot be bound, or a constraint).
InsertRow(db, tableName, colNames, values, orIgnore) ==
    IF \E i \in DOMAIN values : ~Bindable(values[i])
    THEN [ok |-> FALSE, changes |-> 0, db |-> db]
    ELSE InsertBuilt(db, tableName, TableOf(db, tableName),
                     BuildRow(TableOf(db, tableName), colNames, values), orIgnore)

-----------------------------------------------------------------------------
(* Identifiers the server writes literally                                 *)

MetaTablesName == <<"_", "a", "i", "r", "t", "a", "b", "l", "e", "_", "m", "e", "t", "a", "_", "t", "a", "b", "l", "e", "s">>
MetaFieldsName == <<"_", "a", "i", "r", "t", "a", "b", "l", "e", "_", "m", "e", "t", "a", "_", "f", "i", "e", "l", "d", "s">>
N_id == <<"i", "d">>
N_name == <<"n", "a", "m", "e">>
N_sqlite_name == <<"s", "q", "l", "i", "t", "e", "_", "n", "a", "m", "e">>
N_primary_field_id == <<"p", "r", "i", "m", "a", "r", "y", "_", "f", "i", "e", "l", "d", "_", "i", "d">>
N_table_id == <<"t", "a", "b", "l", "e", "_", "i", "d">>
N_type == <<"t", "y", "p", "e">>
N_options_json == <<"o", "p", "t", "i", "o", "n", "s", "_", "j", "s", "o", "n">>
N_airtable_description == <<"a", "i", "r", "t", "a", "b", "l", "e", "_", "d", "e", "s", "c", "r", "i", "p", "t", "i", "o", "n">>
N_is_primary_key == <<"i", "s", "_", "p", "r", "i", "m", "a", "r", "y", "_", "k", "e", "y">>
N_junction_table_name == <<"j", "u", "n", "c", "t", "i", "o", "n", "_", "t", "a", "b", "l", "e", "_", "n", "a", "m", "e">>
N_source_id == <<"s", "o", "u", "r", "c", "e", "_", "i", "d">>
N_target_id == <<"t", "a", "r", "g", "e", "t", "_", "i", "d">>
IdxPrefix == <<"i", "d", "x", "_">>

\* The columns of the two metadata tables (server.js, lines 202-223).
MetaTablesCols ==
    << Col(N_id, "TEXT", FALSE), Col(N_name, "TEXT", TRUE),
       Col(N_sqlite_name, "TEXT", TRUE), Col(N_primary_field_id, "TEXT", FALSE) >>

MetaFieldsCols ==
    << Col(N_id, "TEXT", FALSE), Col(N_table_id, "TEXT", TRUE), Col(N_name, "TEXT", TRUE),
       Col(N_sqlite_name, "TEXT", TRUE), Col(N_type, "TEXT", TRUE),
       Col(N_options_json, "TEXT", FALSE), Col(N_airtable_description, "TEXT", FALSE),
       Col(N_is_primary_key, "INTEGER", FALSE), Col(N_junction_table_name, "TEXT", FALSE) >>

ColNames(cols) == [i \in DOMAIN cols |-> cols[i].name]

\* The columns of a junction table (server.js, lines 378-386).
JunctionCols == << Col(N_source_id, "TEXT", TRUE), Col(N_target_id, "TEXT", TRUE) >>

\* The second statement runs when the first one raised no error.
ThenCreateMetaFields(a) ==
    IF ~a.ok THEN a
    ELSE CreateTableIfNotExists(a.db, MetaFieldsName, MetaFieldsCols, <<N_id>>)

\* server.js, lines 202-223: both CREATE TABLE IF NOT EXISTS statements.
CreateMetadataTables(db) ==
    ThenCreateMetaFields(CreateTableIfNotExists(db, MetaTablesName, MetaTablesCols, <<N_id>>))

-----------------------------------------------------------------------------
(* Metadata population and the field mappings (server.js, lines 244-328)   *)

\* `x || null` for a string of the schema response.
OrNull(x) == IF x = "" THEN JsNull ELSE JsStr(x)

\* A junction table name, or <<>> for a field that has none.
NameOrNull(n) == IF n = <<>> THEN JsNull ELSE JsName(n)

\* The junction table name of a mapping (lines 281-291); <<>> is null.
JunctionNameOf(sqliteTableName, mapping) ==
    IF mapping.airtableType = "multipleRecordLinks"
    THEN generateJunctionTableName(sqliteTableName, mapping.sqliteName)
    ELSE <<>>

\* A variant that records the primary field of the table as a key and
\* leaves junction_table_name empty.
InsertMetaFieldPrimaryAsKey(db, tableSchema, mapping, junctionTableName) ==
    InsertRow(db, MetaFieldsName, ColNames(MetaFieldsCols),
              << JsStr(mapping.airtableFieldId), JsStr(tableSchema.id),
                 JsName(mapping.airtableName), JsName(mapping.sqliteName),
                 JsStr(mapping.airtableType),
                 IF mapping.airtableOptions.has THEN JsJson(mapping.airtableOptions)
                                                ELSE JsNull,
                 JsNull, JsNum(IF mapping.isAirtablePrimaryField THEN 1 ELSE 0),
                 JsNull >>, FALSE)

\* insertMetaFieldStmt.run for one mapping (lines 294-304).
InsertMetaField(db, tableSchema, mapping, junctionTableName) ==
    InsertRow(db, MetaFieldsName, ColNames(MetaFieldsCols),
              << JsStr(mapping.airtableFieldId), JsStr(tableSchema.id),
                 JsName(mapping.airtableName), JsName(mapping.sqliteName),
                 JsStr(mapping.airtableType),
                 IF mapping.airtableOptions.has THEN JsJson(mapping.airtableOptions)
                                                ELSE JsNull,
                 JsNull, JsNum(0), NameOrNull(junctionTableName) >>, FALSE)

\* The entry of viewerConfigData.tables[..].fields for one mapping (lines 307-324).
FieldConfig(mapping, junctionTableName) ==
    [id |-> mapping.airtableFieldId, name |-> mapping.airtableName,
     sqliteName |-> mapping.sqliteName, type |-> mapping.airtableType,
     options |-> mapping.airtableOptions, junctionTable |-> junctionTableName]

\* junctionTablesToCreate.push(...) (lines 285-290), for a field that has a junction table.
PushJunction(junctions, sqliteTableName, mapping, junctionTableName) ==
    IF junctionTableName = <<>> THEN junctions
    ELSE Append(junctions,
                [name |-> junctionTableName,
                 sourceTableSqliteName |-> sqliteTableName,
                 fieldSqliteName |-> mapping.sqliteName,
                 linkedTableId |-> mapping.airtableOptions.linkedTableId])

\* The body of the loop over finalFieldMappings (lines 281-324) for one mapping,
\* `ins` being what the insert of line 294 did.
MappingStep(acc, sqliteTableName, mapping, junctionTableName, ins) ==
    [ok |-> ins.ok, db |-> ins.db,
     fields |-> Append(acc.fields, FieldConfig(mapping, junctionTableName)),
     junctions |-> PushJunction(acc.junctions, sqliteTableName, mapping, junctionTableName)]

MappingBody(acc, tableSchema, sqliteTableName, mapping, junctionTableName) ==
    MappingStep(acc, sqliteTableName, mapping, junctionTableName,
                InsertMetaField(acc.db, tableSchema, mapping, junctionTableName))

\* The loop over finalFieldMappings (lines 280-325).
\* acc = [ok, db, fields, junctions]; the first failing insert leaves ok = FALSE.
RECURSIVE MappingLoop(_, _, _, _)
MappingLoop(tableSchema, sqliteTableName, mappings, acc) ==
    IF mappings = <<>> \/ ~acc.ok THEN acc
    ELSE MappingLoop(tableSchema, sqliteTableName, Tail(mappings),
                     MappingBody(acc, tableSchema, sqliteTableName, Head(mappings),
                                 JunctionNameOf(sqliteTableName, Head(mappings))))

\* insertMetaTableStmt.run (lines 247-252).
InsertMetaTable(db, tableSchema, sqliteTableName) ==
    InsertRow(db, MetaTablesName, ColNames(MetaTablesCols),
              << JsStr(tableSchema.id), JsName(tableSchema.name),
                 JsName(sqliteTableName), OrNull(tableSchema.primaryFieldId) >>, FALSE)

\* The metadata row of the synthetic key column (lines 263-273).
InsertMetaPk(db, tableSchema) ==
    InsertRow(db, MetaFieldsName, ColNames(MetaFieldsCols),
              << JsStr("synthetic_pk_id_for_" \o tableSchema.id),
                 JsStr(tableSchema.id), JsStr("Record ID"), JsName(N_id),
                 JsStr("id"), JsNull,
                 JsStr("Airtable Record ID (Primary Key)"), JsNum(1), JsNull >>, FALSE)

\* viewerConfigData.tables.push(tableConfigEntry) (lines 254-260, 326).
PlanTableEnd(acc, tableSchema, sqliteTableName, looped) ==
    IF ~looped.ok THEN [acc EXCEPT !.ok = FALSE]
    ELSE [ok |-> TRUE, db |-> looped.db,
          tables |-> Append(acc.tables,
                        [id |-> tableSchema.id, name |-> tableSchema.name,
                         sqliteName |-> sqliteTableName, fields |-> looped.fields,
                         primaryFieldId |-> tableSchema.primaryFieldId]),
          junctions |-> looped.junctions]

\* Lines 275-325: the field mappings of the table and their metadata rows.
PlanFields(acc, tableSchema, sqliteTableName, metaPk) ==
    IF ~metaPk.ok THEN [acc EXCEPT !.ok = FALSE]
    ELSE PlanTableEnd(acc, tableSchema, sqliteTableName,
             MappingLoop(tableSchema, sqliteTableName,
                 getDeDuplicatedColumnMappings(tableSchema.fields,
                                               tableSchema.primaryFieldId, N_id),
                 [ok |-> TRUE, db |-> metaPk.db, fields |-> <<>>,
                  junctions |-> acc.junctions]))

PlanPk(acc, tableSchema, sqliteTableName, metaTable) ==
    IF ~metaTable.ok THEN [acc EXCEPT !.ok = FALSE]
    ELSE PlanFields(acc, tableSchema, sqliteTableName,
                    InsertMetaPk(metaTable.db, tableSchema))

\* A variant that creates the data table of a table while planning it.
PlanNamedCreatingTable(acc, tableSchema, sqliteTableName) ==
    PlanPk(acc, tableSchema, sqliteTableName,
           InsertMetaTable(CreateTableIfNotExists(acc.db, sqliteTableName,
                                                  << Col(N_id, "TEXT", FALSE) >>,
                                                  <<N_id>>).db,
                           tableSchema, sqliteTableName))

PlanNamed(acc, tableSchema, sqliteTableName) ==
    PlanPk(acc, tableSchema, sqliteTableName,
           InsertMetaTable(acc.db, tableSchema, sqliteTableName))

\* One iteration of the loop over tablesSchema (lines 245-327).
\* acc = [ok, db, tables, junctions].
PlanTable(tableSchema, acc) ==
    PlanNamed(acc, tableSchema, sanitizeColumnName(tableSchema.name))

RECURSIVE PlanLoop(_, _)
PlanLoop(tablesSchema, acc) ==
    IF tablesSchema = <<>> \/ ~acc.ok THEN acc
    ELSE PlanLoop(Tail(tablesSchema), PlanTable(Head(tablesSchema), acc))

\* A transaction whose function threw is rolled back to `db`.
RolledBack(r, db) == IF r.ok THEN r ELSE [r EXCEPT !.db = db]

\* The metadata transaction (lines 244-328): viewerConfigData.tables and
\* junctionTablesToCreate, or ok = FALSE with the database rolled back.
PopulateMetadata(db, tablesSchema) ==
    RolledBack(PlanLoop(tablesSchema,
                        [ok |-> TRUE, db |-> db, tables |-> <<>>, junctions |-> <<>>]),
               db)

-----------------------------------------------------------------------------
(* Creation of the data and junction tables (server.js, lines 335-401)     *)

\* viewerConfigData.tables.find(t => t.id === id): the index of the first
\* entry with that id, 0 when there is none.
FindConfig(viewerTables, id) ==
    IF \E i \in DOMAIN viewerTables : viewerTables[i].id = id
    THEN CHOOSE i \in DOMAIN viewerTables :
            /\ viewerTables[i].id = id
            /\ \A j \in 1..(i - 1) : viewerTables[j].id # id
    ELSE 0

\* Array.prototype.filter on a sequence of field configurations.
RECURSIVE FilterFields(_, _)
FilterFields(fields, wantLinks) ==
    IF fields = <<>> THEN <<>>
    ELSE IF (Head(fields).type = "multipleRecordLinks") = wantLinks
         THEN <<Head(fields)>> \o FilterFields(Tail(fields), wantLinks)
         ELSE FilterFields(Tail(fields), wantLinks)

\* A variant that names the columns by the fields' source names.
PlainColsSourceNames(plain) ==
    [i \in DOMAIN plain |->
        Col(plain[i].name, mapAirtableTypeToSQLite(plain[i].type, plain[i].options), FALSE)]

\* One column per field that is not a linked-record field (lines 351-358).
PlainCols(plain) ==
    [i \in DOMAIN plain |->
        Col(plain[i].sqliteName,
            mapAirtableTypeToSQLite(plain[i].type, plain[i].options), FALSE)]

\* A variant that gives every field a column, linked-record fields included.
MainTableColsWithLinks(tableViewerConfig) ==
    << Col(N_id, "TEXT", FALSE) >> \o PlainCols(tableViewerConfig.fields)

\* The column definitions of a main table (lines 348-364): the synthetic key,
\* then the columns of the fields.
MainTableCols(tableViewerConfig) ==
    << Col(N_id, "TEXT", FALSE) >> \o PlainCols(FilterFields(tableViewerConfig.fields, FALSE))

\* `idx_${sqliteTableName}_pk` (line 368)
PkIndexName(sqliteTableName) == IdxPrefix \o sqliteTableName \o <<"_", "p", "k">>

\* Line 368, reached when the CREATE TABLE of line 366 raised no error.
ThenCreatePkIndex(created, sqliteTableName) ==
    IF ~created.ok THEN created
    ELSE CreateIndexIfNotExists(created.db, PkIndexName(sqliteTableName),
                                sqliteTableName, N_id)

\* Lines 338-369 for a table whose configuration is at position `at` (0: none).
CreateMainTableAt(db, sqliteTableName, viewerTables, at) ==
    IF at = 0 THEN [ok |-> TRUE, db |-> db]
    ELSE ThenCreatePkIndex(
             CreateTableIfNotExists(db, sqliteTableName,
                                    MainTableCols(viewerTables[at]), <<N_id>>),
             sqliteTableName)

\* One iteration of the loop over tablesSchema (lines 337-370).
CreateMainTable(db, tableSchema, viewerTables) ==
    CreateMainTableAt(db, sanitizeColumnName(tableSchema.name), viewerTables,
                      FindConfig(viewerTables, tableSchema.id))

RECURSIVE CreateMainTables(_, _, _)
CreateMainTables(acc, tablesSchema, viewerTables) ==
    IF tablesSchema = <<>> \/ ~acc.ok THEN acc
    ELSE CreateMainTables(CreateMainTable(acc.db, Head(tablesSchema), viewerTables),
                          Tail(tablesSchema), viewerTables)

\* `idx_${junctionInfo.name}_source` and `..._target` (lines 388-389)
SourceIndexName(name) == IdxPrefix \o name \o <<"_", "s", "o", "u", "r", "c", "e">>
TargetIndexName(name) == IdxPrefix \o name \o <<"_", "t", "a", "r", "g", "e", "t">>

\* A statement that runs when the ones before it raised no error.
ThenCreateIndex(before, idxName, tableName, col) ==
    IF ~before.ok THEN before
    ELSE CreateIndexIfNotExists(before.db, idxName, tableName, col)

\* Lines 391-396: the INSERT OR IGNORE statement is prepared and kept.
ThenPrepareJunction(acc, name, made) ==
    IF ~made.ok \/ ~CanPrepareInsert(made.db, name, ColNames(JunctionCols))
    THEN [acc EXCEPT !.ok = FALSE]
    ELSE [ok |-> TRUE, db |-> made.db, stmts |-> acc.stmts \cup {name}]

\* One iteration of the loop over junctionTablesToCreate (lines 375-398).
\* acc = [ok, db, stmts]: stmts are the names junctionInsertStmts has a
\* prepared statement for (also the set createdJunctionTables).
CreateJunctionTable(acc, junctionInfo) ==
    IF junctionInfo.name \in acc.stmts THEN acc
    ELSE ThenPrepareJunction(acc, junctionInfo.name,
             ThenCreateIndex(
                 ThenCreateIndex(
                     CreateTableIfNotExists(acc.db, junctionInfo.name, JunctionCols,
                                            <<N_source_id, N_target_id>>),
                     SourceIndexName(junctionInfo.name), junctionInfo.name, N_source_id),
                 TargetIndexName(junctionInfo.name), junctionInfo.name, N_target_id))

RECURSIVE CreateJunctionTables(_, _)
CreateJunctionTables(acc, junctionTablesToCreate) ==
    IF junctionTablesToCreate = <<>> \/ ~acc.ok THEN acc
    ELSE CreateJunctionTables(CreateJunctionTable(acc, Head(junctionTablesToCreate)),
                              Tail(junctionTablesToCreate))

\* The loop of lines 375-398, reached when the loop of lines 337-370 threw nothing.
ThenCreateJunctionTables(main, junctionTablesToCreate) ==
    IF ~main.ok THEN [ok |-> FALSE, db |-> main.db, stmts |-> {}]
    ELSE CreateJunctionTables([ok |-> TRUE, db |-> main.db, stmts |-> {}],
                              junctionTablesToCreate)

\* The table-creation transaction (lines 335-401): [ok, db, stmts], the
\* database rolled back when a statement fails.
CreateDataTables(db, tablesSchema, viewerTables, junctionTablesToCreate) ==
    RolledBack(ThenCreateJunctionTables(
                   CreateMainTables([ok |-> TRUE, db |-> db], tablesSchema, viewerTables),
                   junctionTablesToCreate),
               db)

-----------------------------------------------------------------------------
(* Writing one table's records (server.js, lines 440-524)                  *)

\* record.fields[name]: undefined for a field the record does not carry.
FieldValue(record, name) ==
    IF name \in DOMAIN record.fields THEN record.fields[name] ELSE JsUndefined

\* The mapping of a field for the main INSERT (lines 446-453).
PlainMappings(plain) ==
    [i \in DOMAIN plain |->
        [airtableName |-> plain[i].name, sqliteName |-> plain[i].sqliteName,
         airtableType |-> plain[i].type, airtableOptions |-> plain[i].options]]

\* MainInsertMappings without the filter of line 443: every field of the
\* table, the linked-record fields included.
MainInsertMappingsUnfiltered(tableViewerConfig) ==
    << [airtableName |-> N_id, sqliteName |-> N_id, airtableType |-> "text",
        airtableOptions |-> NoOptions] >> \o
    PlainMappings(tableViewerConfig.fields)

\* allMappingsForMainInsert (lines 442-454): the synthetic key first.
MainInsertMappings(tableViewerConfig) ==
    << [airtableName |-> N_id, sqliteName |-> N_id, airtableType |-> "text",
        airtableOptions |-> NoOptions] >> \o
    PlainMappings(FilterFields(tableViewerConfig.fields, FALSE))

\* valuesToInsertMain (lines 474-480).
ValuesToInsertMain(record, allMappings) ==
    [i \in DOMAIN allMappings |->
        IF allMappings[i].sqliteName = N_id THEN JsStr(record.id)
        ELSE formatValueForSQLite(FieldValue(record, allMappings[i].airtableName),
                                  allMappings[i].airtableType,
                                  allMappings[i].airtableOptions)]

\* The calls of formatValueForSQLite that lines 475-479 make for one record:
\* the field read, the raw value and the type tag handed over.
FormatCalls(record, allMappings) ==
    { [name |-> allMappings[i].airtableName,
       rawValue |-> FieldValue(record, allMappings[i].airtableName),
       airtableType |-> allMappings[i].airtableType] :
         i \in { j \in DOMAIN allMappings : allMappings[j].sqliteName # N_id } }

NoStats ==
    [successfulMainInserts |-> 0, failedMainInserts |-> 0,
     successfulJunctionInserts |-> 0, failedJunctionInserts |-> 0]

\* Lines 503-512: the outcome of one junction insert is counted.
CountJunction(acc, ins) ==
    [db |-> ins.db,
     stats |-> IF ins.ok
               THEN [acc.stats EXCEPT !.successfulJunctionInserts = @ + 1]
               ELSE [acc.stats EXCEPT !.failedJunctionInserts = @ + 1]]

\* The loop over linkedRecordIds (lines 500-513). acc = [db, stats].
RECURSIVE JunctionIdLoop(_, _, _, _)
JunctionIdLoop(acc, junctionTableName, recordId, linkedRecordIds) ==
    IF linkedRecordIds = <<>> THEN acc
    ELSE JunctionIdLoop(
             CountJunction(acc,
                 InsertRow(acc.db, junctionTableName, ColNames(JunctionCols),
                           <<JsStr(recordId), JsStr(Head(linkedRecordIds))>>, TRUE)),
             junctionTableName, recordId, Tail(linkedRecordIds))

\* A variant that writes the first linked record of a field only.
LinkFieldInsertsFirstOnly(acc, record, linkField, linkedRecordIds, stmts) ==
    IF linkedRecordIds.k = "list" /\ linkField.junctionTable \in stmts
    THEN JunctionIdLoop(acc, linkField.junctionTable, record.id,
                        IF linkedRecordIds.v = <<>> THEN <<>>
                        ELSE <<Head(linkedRecordIds.v)>>)
    ELSE acc

\* Lines 495-514 for one link field, linkedRecordIds being record.fields[linkField.name].
LinkFieldInserts(acc, record, linkField, linkedRecordIds, stmts) ==
    IF linkedRecordIds.k = "list" /\ linkField.junctionTable \in stmts
    THEN JunctionIdLoop(acc, linkField.junctionTable, record.id, linkedRecordIds.v)
    ELSE acc

\* The loop over linkFieldsForThisTable for one record (lines 494-515).
RECURSIVE JunctionInserts(_, _, _, _)
JunctionInserts(acc, record, linkFields, stmts) ==
    IF linkFields = <<>> THEN acc
    ELSE JunctionInserts(
             LinkFieldInserts(acc, record, Head(linkFields),
                              FieldValue(record, Head(linkFields).name), stmts),
             record, Tail(linkFields), stmts)

\* AfterMainInsert without the `continue` of line 490: the links of a record
\* are written whether or not its row was.
AfterMainInsertAlwaysLinks(acc, ins, record, linkFields, stmts) ==
    JunctionInserts(
        [db |-> ins.db,
         stats |-> IF ins.ok
                   THEN [acc.stats EXCEPT !.successfulMainInserts = @ + 1]
                   ELSE [acc.stats EXCEPT !.failedMainInserts = @ + 1]],
        record, linkFields, stmts)

\* AfterMainInsert without line 487: a failed insert is skipped uncounted.
AfterMainInsertUncounted(acc, ins, record, linkFields, stmts) ==
    IF ~ins.ok
    THEN acc
    ELSE JunctionInserts(
             [db |-> ins.db,
              stats |-> [acc.stats EXCEPT !.successfulMainInserts = @ + 1]],
             record, linkFields, stmts)

\* Lines 483-516 for one record, `ins` being what the main insert of line 484 did.
AfterMainInsert(acc, ins, record, linkFields, stmts) ==
    IF ~ins.ok
    THEN [acc EXCEPT !.stats.failedMainInserts = @ + 1]
    ELSE JunctionInserts(
             [db |-> ins.db,
              stats |-> [acc.stats EXCEPT !.successfulMainInserts = @ + 1]],
             record, linkFields, stmts)

\* The column names of the prepared main INSERT (lines 456-458).
InsertColNames(allMappings) == [i \in DOMAIN allMappings |-> allMappings[i].sqliteName]

\* The body of the loop over records (lines 472-516), for one record.
InsertRecord(acc, record, sqliteTableName, allMappings, linkFields, stmts) ==
    AfterMainInsert(acc,
        InsertRow(acc.db, sqliteTableName, InsertColNames(allMappings),
                  ValuesToInsertMain(record, allMappings), FALSE),
        record, linkFields, stmts)

\* InsertLoop without the try/catch of lines 483-491: the first record whose
\* insert fails ends the loop.
RECURSIVE InsertLoopAborting(_, _, _, _, _, _)
InsertLoopAborting(acc, records, sqliteTableName, allMappings, linkFields, stmts) ==
    IF records = <<>> \/ acc.stats.failedMainInserts > 0 THEN acc
    ELSE InsertLoopAborting(InsertRecord(acc, Head(records), sqliteTableName, allMappings,
                                         linkFields, stmts),
                            Tail(records), sqliteTableName, allMappings, linkFields, stmts)

\* insertTransaction(records) (lines 466-519): [db, stats].
RECURSIVE InsertLoop(_, _, _, _, _, _)
InsertLoop(acc, records, sqliteTableName, allMappings, linkFields, stmts) ==
    IF records = <<>> THEN acc
    ELSE InsertLoop(InsertRecord(acc, Head(records), sqliteTableName, allMappings,
                                 linkFields, stmts),
                    Tail(records), sqliteTableName, allMappings, linkFields, stmts)

\* A variant that notes in _airtable_meta_tables that a table was loaded.
WrittenNotingLoad(done) ==
    [ok |-> TRUE, stats |-> done.stats,
     db |-> InsertRow(done.db, MetaTablesName, ColNames(MetaTablesCols),
                      <<JsStr("loaded"), JsStr("x"), JsStr("x"), JsNull>>, TRUE).db]

\* The outcome of a table whose transaction ran.
Written(done) == [ok |-> TRUE, db |-> done.db, stats |-> done.stats]

\* Lines 456-519, allMappings being allMappingsForMainInsert.
WriteMapped(db, tableViewerConfig, allRecords, stmts, allMappings) ==
    IF ~CanPrepareInsert(db, tableViewerConfig.sqliteName, InsertColNames(allMappings))
    THEN [ok |-> FALSE, db |-> db, stats |-> NoStats]
    ELSE Written(InsertLoop([db |-> db, stats |-> NoStats], allRecords,
                            tableViewerConfig.sqliteName, allMappings,
                            FilterFields(tableViewerConfig.fields, TRUE), stmts))

\* Lines 440-524 for one table: prepare the INSERT, run the transaction.
\* ok = FALSE: db.prepare throws and nothing is written.
WriteTableData(db, tableViewerConfig, allRecords, stmts) ==
    WriteMapped(db, tableViewerConfig, allRecords, stmts,
                MainInsertMappings(tableViewerConfig))

\* A variant in which every record but the last has been committed on its
\* own before the COMMIT that fails.
TransactionKeepingEarlier(db, done, commits) ==
    IF commits THEN Written(done)
    ELSE [ok |-> FALSE, stats |-> NoStats,
          db |-> [done.db EXCEPT !.tables =
                    [n \in DOMAIN @ |->
                        [@[n] EXCEPT !.rows =
                            IF Len(@) > Len(db.tables[n].rows)
                            THEN SubSeq(@, 1, Len(@) - 1) ELSE @]]]]

\* db.transaction(fn)(records) (lines 466, 522): BEGIN, fn, COMMIT.  What fn
\* did is kept when the COMMIT succeeds; when the storage engine cannot
\* commit, the database is rolled back to `db` and the error is thrown.
Transaction(db, done, commits) ==
    IF commits THEN Written(done) ELSE [ok |-> FALSE, db |-> db, stats |-> NoStats]

\* insertTransaction(allRecords) (lines 466-522) for a table whose INSERT
\* statement is prepared, `commits` being whether the engine can commit.
RunInsertTransaction(db, tableViewerConfig, allRecords, stmts, commits) ==
    Transaction(db,
                InsertLoop([db |-> db, stats |-> NoStats], allRecords,
                           tableViewerConfig.sqliteName,
                           MainInsertMappings(tableViewerConfig),
                           FilterFields(tableViewerConfig.fields, TRUE), stmts),
                commits)

-----------------------------------------------------------------------------
(* The request handlers.  Node runs a handler without interruption from    *)
(* one `await` to the next, so each action below is one such segment of    *)
(* app.post('/api/generate-snapshot') or app.post('/api/list-bases'), and  *)
(* pc names the await the handler is suspended at.                         *)

NoRequest == [kind |-> "none", apiKey |-> FALSE, baseId |-> FALSE]

\* The state of a handler that has not been invoked yet.
InitRun ==
    [pc |-> "idle",             \* the await the handler is suspended at
     timer |-> 0,               \* milliseconds left of the pending setTimeout
     tablesSchema |-> <<>>,     \* baseSchemaResponse.data.tables
     tempDbFilePath |-> 0,      \* 0 is '', else the temporary directory's number
     dbOpen |-> FALSE,          \* the Database handle is open
     db |-> EmptyDb,            \* the content of the file at tempDbFilePath
     viewerTables |-> <<>>,     \* viewerConfigData.tables
     stmts |-> {},              \* the keys of junctionInsertStmts
     tIdx |-> 0,                \* position of the loop over tablesSchema
     allRecords |-> <<>>,
     offset |-> 0,              \* the pagination cursor; 0 is null/undefined
     pagesOk |-> 0,             \* pages received for the current table
     responses |-> <<>>,        \* what was written to res
     sent |-> <<>>,             \* the requests made to the Airtable API
     tlog |-> <<>>,             \* per table: what lines 431-438 and 523-524 log
     trace |-> <<>>]            \* the stages and steps passed, in order

Event(ev, t) == [ev |-> ev, t |-> t]

\* res.status(400).json({ message }) (lines 125, 143)
BadRequestResponse == [status |-> 400, kind |-> "json", items |-> {"message"}, file |-> EmptyDb]

\* res.status(500).json({ message, error, stack }) (lines 553-557)
ServerErrorResponse ==
    [status |-> 500, kind |-> "json", items |-> {"message", "error"}, file |-> EmptyDb]

\* The three headers and the file buffer of lines 544-547.
ArtifactResponse(dbFileBuffer) ==
    [status |-> 200, kind |-> "sqlite",
     items |-> {"Content-Type", "Content-Disposition", "Content-Length", "body"},
     file |-> dbFileBuffer]

\* Fail without lines 552-557: the error is logged and nothing is sent.
FailSilent(r) ==
    [r EXCEPT !.trace = Append(@, Event("FAILED", r.tIdx)),
              !.pc = IF r.tempDbFilePath # 0 THEN "unlinkWait" ELSE "done"]

\* The catch and finally blocks (lines 550-569), up to the await of fs.unlink.
Fail(r) ==
    [r EXCEPT !.responses = IF r.responses = <<>> THEN <<ServerErrorResponse>> ELSE @,
              !.trace = Append(@, Event("FAILED", r.tIdx)),
              !.pc = IF r.tempDbFilePath # 0 THEN "unlinkWait" ELSE "done"]

\* The head of the loop over tablesSchema (lines 404-420) for position t, or
\* what follows the loop (lines 529-542) up to the await of fs.readFile.
RECURSIVE EnterTable(_, _)
EnterTable(r, t) ==
    IF t > Len(r.tablesSchema)
    THEN [r EXCEPT !.tIdx = t, !.dbOpen = FALSE, !.pc = "readWait"]
    ELSE IF FindConfig(r.viewerTables, r.tablesSchema[t].id) = 0
    THEN EnterTable(r, t + 1)
    ELSE [r EXCEPT !.tIdx = t, !.allRecords = <<>>, !.offset = 0, !.pagesOk = 0,
                   !.timer = AIRTABLE_RATE_LIMIT_DELAY, !.pc = "pageDelay",
                   !.trace = Append(@, Event("FETCHING", t))]

\* Lines 335-404: the outcome `made` of the table-creation transaction.
StructureMade(opened, plan, made) ==
    IF ~made.ok
    THEN Fail([opened EXCEPT !.db = made.db, !.viewerTables = plan.tables,
                             !.trace = Append(@, Event("PLAN_BUILT", 0))])
    ELSE EnterTable([opened EXCEPT !.db = made.db, !.viewerTables = plan.tables,
                                   !.stmts = made.stmts,
                                   !.trace = @ \o << Event("PLAN_BUILT", 0),
                                                     Event("STRUCTURE_CREATED", 0) >>],
                    1)

\* Lines 244-401: the outcome `plan` of the metadata transaction.
StructurePlanned(opened, plan) ==
    IF ~plan.ok THEN Fail([opened EXCEPT !.db = plan.db])
    ELSE StructureMade(opened, plan,
             CreateDataTables(plan.db, opened.tablesSchema, plan.tables, plan.junctions))

\* Lines 202-401: the outcome `meta` of the two CREATE TABLE of the metadata.
StructureOpened(opened, meta) ==
    IF ~meta.ok THEN Fail(opened)
    ELSE StructurePlanned(opened, PopulateMetadata(meta.db, opened.tablesSchema))

\* Lines 196-401, entered when fs.mkdtemp has resolved with directory `dir`:
\* open the database, create and fill the metadata tables, create the data
\* and junction tables; then the first table's fetch (line 404).
BuildStructure(r, dir) ==
    StructureOpened([r EXCEPT !.tempDbFilePath = dir, !.dbOpen = TRUE],
                    CreateMetadataTables(EmptyDb))

\* Lines 521-528: the table's counts are logged; on to the next table.
TableWritten(r, config, fetchFailed, w) ==
    IF ~w.ok THEN Fail([r EXCEPT !.trace = Append(@, Event("WRITING", r.tIdx))])
    ELSE EnterTable(
             [r EXCEPT
                 !.db = w.db,
                 !.tlog = Append(@, [tableId |-> config.id,
                                     sqliteName |-> config.sqliteName,
                                     fetchFailed |-> fetchFailed,
                                     pagesOk |-> r.pagesOk,
                                     batch |-> r.allRecords,
                                     stats |-> w.stats]),
                 !.trace = @ \o << Event("WRITING", r.tIdx), Event("written", r.tIdx) >>],
             r.tIdx + 1)

\* Lines 440-528 with the table's configuration at hand.
WriteWith(r, config, fetchFailed) ==
    TableWritten(r, config, fetchFailed,
                 WriteTableData(r.db, config, r.allRecords, r.stmts))

\* Lines 438-528 for the current table, entered when its fetch loop has ended
\* (fetchFailed: by the catch of line 430), and on to the next table.
FinishTable(r, fetchFailed) ==
    WriteWith(r, r.viewerTables[FindConfig(r.viewerTables, r.tablesSchema[r.tIdx].id)],
              fetchFailed)

\* AfterPage with the write started as soon as a page is there, while the
\* cursor says that more pages are to be fetched.
AfterPageInterleaved(got) ==
    IF got.offset # 0
    THEN [got EXCEPT !.timer = AIRTABLE_RATE_LIMIT_DELAY, !.pc = "pageDelay",
                     !.trace = Append(@, Event("WRITING", got.tIdx))]
    ELSE FinishTable(got, FALSE)

\* AfterPage with the next page requested at once, as if the delay of
\* line 420 stood before the loop and not in it.
AfterPageAtOnce(got) ==
    IF got.offset # 0
    THEN [got EXCEPT !.timer = 0, !.pc = "pageDelay"]
    ELSE FinishTable(got, FALSE)

\* The loop test of line 437 for a page that arrived.
AfterPage(got) ==
    IF got.offset # 0
    THEN [got EXCEPT !.timer = AIRTABLE_RATE_LIMIT_DELAY, !.pc = "pageDelay"]
    ELSE FinishTable(got, FALSE)

\* PageArrived without line 428: the cursor of the response is not kept.
PageArrivedCursorDropped(r, records, nextOffset) ==
    AfterPage([r EXCEPT !.allRecords = @ \o records, !.offset = 0, !.pagesOk = @ + 1])

\* Lines 427-429 and the loop test of line 437, for a page that arrived.
PageArrived(r, records, nextOffset) ==
    AfterPage([r EXCEPT !.allRecords = @ \o records, !.offset = nextOffset,
                        !.pagesOk = @ + 1])

\* PageFailed with the records fetched so far discarded by the catch.
PageFailedDropsBatch(r) == FinishTable([r EXCEPT !.offset = 0, !.allRecords = <<>>], TRUE)

\* Lines 430-436: the request failed; stop fetching this table.
PageFailed(r) == FinishTable([r EXCEPT !.offset = 0], TRUE)

\* A request to the Airtable API leaves the server.
NoteRequest(n) ==
    [n EXCEPT !.lastGap = n.sinceLast, !.sinceLast = 0]

-----------------------------------------------------------------------------
(* The source bases the Airtable API serves: the schema of a base and, per *)
(* table, its records in pages.                                            *)

Field(id, name, type, options) == [id |-> id, name |-> name, type |-> type, options |-> options]

Table(id, name, primaryFieldId, fields) ==
    [id |-> id, name |-> name, primaryFieldId |-> primaryFieldId, fields |-> fields]

Rec(id, fields) == [id |-> id, fields |-> fields]

F_Name == <<"N", "a", "m", "e">>
F_Done == <<"D", "o", "n", "e">>
F_Linked == <<"L", "i", "n", "k", "e", "d", " ", "P", "r", "o", "j", "e", "c", "t", "s">>
F_When == <<"W", "h", "e", "n">>
F_Amount == <<"A", "m", "o", "u", "n", "t">>
F_ID == <<"I", "D">>
F_Ref == <<"R", "e", "f">>
F_Num == <<"N", "u", "m">>

\* "Tasks" with a checkbox and a link to "Projects"; two pages of tasks.
TasksBase ==
    [tables |->
        << Table("tblTasks", <<"T", "a", "s", "k", "s">>, "fldName",
                 << Field("fldName", F_Name, "singleLineText", NoOptions),
                    Field("fldDone", F_Done, "checkbox", NoOptions),
                    Field("fldLink", F_Linked, "multipleRecordLinks",
                          LinkOptions("tblProjects")) >>),
           Table("tblProjects", <<"P", "r", "o", "j", "e", "c", "t", "s">>, "fldPName",
                 << Field("fldPName", F_Name, "singleLineText", NoOptions) >>) >>,
     pages |->
        ("tblTasks" :>
            << << Rec("rec1", (F_Name :> JsStr("a")) @@ (F_Done :> JsBool(TRUE))
                              @@ (F_Linked :> JsList(<<"p1", "p2">>))) >>,
               << Rec("rec2", (F_Name :> JsStr("b"))
                              @@ (F_Linked :> JsList(<<"p1", "p1">>))) >> >>)
        @@ ("tblProjects" :>
            << << Rec("p1", (F_Name :> JsStr("x"))),
                  Rec("p2", (F_Name :> JsStr("y"))) >> >>)]

\* One table whose records are not all storable: a date that is a boolean,
\* a number that is not numeric, a record id delivered twice.
LogBase ==
    [tables |->
        << Table("tblLog", <<"L", "o", "g">>, "fldWhen",
                 << Field("fldWhen", F_When, "date", NoOptions),
                    Field("fldAmount", F_Amount, "number", PrecisionOptions(2)),
                    Field("fldID", F_ID, "singleLineText", NoOptions),
                    Field("fldRef", F_Ref, "multipleRecordLinks",
                          LinkOptions("tblLog")) >>) >>,
     pages |->
        ("tblLog" :>
            << << Rec("r1", (F_When :> JsStr("2024-01-01")) @@ (F_Amount :> JsNum(7))
                            @@ (F_Ref :> JsList(<<"r1">>))),
                  Rec("r2", (F_When :> JsBool(TRUE)) @@ (F_Ref :> JsList(<<"r1">>))) >>,
               << Rec("r3", (F_Amount :> JsStr("abc")) @@ (F_ID :> JsStr("k"))),
                  Rec("r1", (F_When :> JsStr("2024-01-02"))
                            @@ (F_Ref :> JsList(<<"r3">>))) >> >>)]

\* Two tables whose names sanitize to the same identifier, and a third one.
CollidingBase ==
    [tables |->
        << Table("tblA1", <<"A", " ", "b">>, "fldA1",
                 << Field("fldA1", F_Name, "singleLineText", NoOptions) >>),
           Table("tblA2", <<"A", "_", "b">>, "fldA2",
                 << Field("fldA2", F_Name, "singleLineText", NoOptions),
                    Field("fldA3", F_Num, "number", NoOptions) >>),
           Table("tblC", <<"C">>, "fldC",
                 << Field("fldC", F_Name, "singleLineText", NoOptions) >>) >>,
     pages |->
        ("tblA1" :> << << Rec("a1", (F_Name :> JsStr("x"))) >> >>)
        @@ ("tblA2" :> << << Rec("a2", (F_Name :> JsStr("y")) @@ (F_Num :> JsNum(7))) >> >>)
        @@ ("tblC" :> << << Rec("c1", (F_Name :> JsStr("z"))) >> >>)]

\* A table whose name SQLite reserves for internal use.
ReservedBase ==
    [tables |->
        << Table("tblS", <<"s", "q", "l", "i", "t", "e", "_", "a">>, "fldS",
                 << Field("fldS", F_Name, "singleLineText", NoOptions) >>) >>,
     pages |-> ("tblS" :> << << Rec("s1", (F_Name :> JsStr("x"))) >> >>)]

\* A table without records.
EmptyTableBase ==
    [tables |->
        << Table("tblE", <<"E">>, "fldE",
                 << Field("fldE", F_Name, "singleLineText", NoOptions) >>) >>,
     pages |-> ("tblE" :> << << >> >>)]

\* A base without tables.
NoTablesBase == [tables |-> <<>>, pages |-> [t \in {} |-> <<>>]]

\* One table, one record: the base of the runs that overlap in time.
TinyBase ==
    [tables |->
        << Table("tblT", <<"T">>, "fldT",
                 << Field("fldT", F_Name, "singleLineText", NoOptions) >>) >>,
     pages |-> ("tblT" :> << << Rec("t1", (F_Name :> JsStr("x"))) >> >>)]

Bases == {TasksBase, LogBase, CollidingBase, ReservedBase, EmptyTableBase, NoTablesBase}

\* The records of pages 1..n of a table, in order.
RECURSIVE PagesUpTo(_, _)
PagesUpTo(pages, n) ==
    IF n = 0 THEN <<>> ELSE PagesUpTo(pages, n - 1) \o pages[n]

-----------------------------------------------------------------------------
(* The HTTP requests the server receives                                   *)

GenerateRequest(apiKey, baseId) == [kind |-> "generate", apiKey |-> apiKey, baseId |-> baseId]

ListRequest(apiKey) == [kind |-> "list", apiKey |-> apiKey, baseId |-> FALSE]

\* One request, handled alone.
SingleRequests ==
    { GenerateRequest(k, b) : k \in BOOLEAN, b \in BOOLEAN } \cup
    { ListRequest(k) : k \in BOOLEAN }

\* Two snapshot requests and a list-bases request whose handling overlaps.
OverlappingRequests ==
    [h \in Handlers |->
        IF h \in {1, 2} THEN GenerateRequest(TRUE, TRUE)
        ELSE IF h = 3 THEN ListRequest(TRUE) ELSE NoRequest]

-----------------------------------------------------------------------------
(* Initial states                                                          *)

InitNet == [sinceLast |-> AIRTABLE_RATE_LIMIT_DELAY, lastGap |-> AIRTABLE_RATE_LIMIT_DELAY]

InitFs == [dirs |-> {}, files |-> {}]

\* The server runs: no function is evaluated on its own.
NoArg == [fn |-> "none"]
NoOut == [at |-> "none"]

Init ==
    /\ \/ /\ world \in Bases
          /\ \E q \in SingleRequests :
                requests = [h \in Handlers |-> IF h = 1 THEN q ELSE NoRequest]
       \/ /\ world = TinyBase
          /\ requests = OverlappingRequests
    /\ run = [h \in Handlers |-> InitRun]
    /\ fs = InitFs
    /\ net = InitNet
    /\ arg = NoArg
    /\ out = NoOut

-----------------------------------------------------------------------------
(* Actions                                                                 *)

Max(a, b) == IF a > b THEN a ELSE b
Min(a, b) == IF a < b THEN a ELSE b

\* Time passes: the pending timers run down (setTimeout, lines 155 and 420).
Tick ==
    /\ \/ \E h \in Handlers : run[h].timer > 0
       \/ net.sinceLast < AIRTABLE_RATE_LIMIT_DELAY
    /\ run' = [h \in Handlers |-> [run[h] EXCEPT !.timer = Max(0, @ - TickMs)]]
    /\ net' = [net EXCEPT !.sinceLast = Min(AIRTABLE_RATE_LIMIT_DELAY, @ + TickMs)]
    /\ UNCHANGED <<world, requests, fs, pure>>

\* ReceiveGenerate without the check of lines 141-144.
ReceiveGenerateUnvalidated(h) ==
    /\ requests[h].kind = "generate"
    /\ run[h].pc = "idle"
    /\ run' = [run EXCEPT ![h] = [@ EXCEPT !.timer = AIRTABLE_RATE_LIMIT_DELAY,
                                           !.trace = <<Event("INIT", 0)>>,
                                           !.pc = "schemaDelay"]]
    /\ UNCHANGED <<world, requests, fs, net, pure>>

\* Lines 140-155: validation, then the delay before the schema request.
ReceiveGenerate(h) ==
    /\ requests[h].kind = "generate"
    /\ run[h].pc = "idle"
    /\ run' = [run EXCEPT ![h] =
                 IF ~requests[h].apiKey \/ ~requests[h].baseId
                 THEN [@ EXCEPT !.responses = <<BadRequestResponse>>,
                                !.trace = <<Event("INIT", 0), Event("FAILED", 0)>>,
                                !.pc = "done"]
                 ELSE [@ EXCEPT !.timer = AIRTABLE_RATE_LIMIT_DELAY,
                                !.trace = <<Event("INIT", 0)>>,
                                !.pc = "schemaDelay"]]
    /\ UNCHANGED <<world, requests, fs, net, pure>>

\* Lines 156-159: the timer has fired; the schema request is sent.
SendSchemaRequest(h) ==
    /\ run[h].pc = "schemaDelay"
    /\ run[h].timer = 0
    /\ run' = [run EXCEPT ![h].pc = "schemaWait",
                          ![h].sent = Append(@, [ep |-> "schema", table |-> "", offset |-> 0]),
                          ![h].trace = Append(@, Event("request", 0))]
    /\ net' = NoteRequest(net)
    /\ UNCHANGED <<world, requests, fs, pure>>

\* Lines 160-195: the schema arrived; on to the await of fs.mkdtemp.
SchemaArrived(h) ==
    /\ run[h].pc = "schemaWait"
    /\ run' = [run EXCEPT ![h].tablesSchema = world.tables,
                          ![h].trace = Append(@, Event("SCHEMA_FETCHED", 0)),
                          ![h].pc = "mkdtempWait"]
    /\ UNCHANGED <<world, requests, fs, net, pure>>

\* The schema request failed: line 157 throws into the catch of line 550.
SchemaFailed(h) ==
    /\ run[h].pc = "schemaWait"
    /\ run' = [run EXCEPT ![h] = Fail(@)]
    /\ UNCHANGED <<world, requests, fs, net, pure>>

\* StructureBuilt with the file placed in os.tmpdir() itself, named after the
\* base and the clock only, without the directory of fs.mkdtemp (line 195).
StructureBuiltInTmpdir(h) ==
    /\ run[h].pc = "mkdtempWait"
    /\ run' = [run EXCEPT ![h] = BuildStructure(@, 1)]
    /\ fs' = [dirs |-> fs.dirs \cup {1}, files |-> fs.files \cup {1}]
    /\ UNCHANGED <<world, requests, net, pure>>

\* Lines 195-420: fs.mkdtemp resolved with a directory no one else has; the
\* database file is created in it and the structure is built.
StructureBuilt(h) ==
    /\ run[h].pc = "mkdtempWait"
    /\ LET dir == Cardinality(fs.dirs) + 1
       IN  /\ run' = [run EXCEPT ![h] = BuildStructure(@, dir)]
           /\ fs' = [dirs |-> fs.dirs \cup {dir}, files |-> fs.files \cup {dir}]
    /\ UNCHANGED <<world, requests, net, pure>>

\* Lines 421-426: the timer has fired; a page of the current table is requested.
SendPageRequest(h) ==
    /\ run[h].pc = "pageDelay"
    /\ run[h].timer = 0
    /\ run' = [run EXCEPT ![h].pc = "pageWait",
                          ![h].sent = Append(@, [ep |-> "records",
                                                 table |-> run[h].tablesSchema[run[h].tIdx].id,
                                                 offset |-> run[h].offset]),
                          ![h].trace = Append(@, Event("request", run[h].tIdx))]
    /\ net' = NoteRequest(net)
    /\ UNCHANGED <<world, requests, fs, pure>>

\* The page after cursor `offset` of a table, and the cursor the response carries.
PageAfter(tableId, offset) ==
    LET pages == world.pages[tableId]
    IN  [records |-> pages[offset + 1],
         offset |-> IF offset + 1 < Len(pages) THEN offset + 1 ELSE 0]

\* Lines 427-429 and 437-528: the page arrived.
PageResponse(h) ==
    /\ run[h].pc = "pageWait"
    /\ LET page == PageAfter(run[h].tablesSchema[run[h].tIdx].id, run[h].offset)
       IN  run' = [run EXCEPT ![h] = PageArrived(@, page.records, page.offset)]
    /\ UNCHANGED <<world, requests, fs, net, pure>>

\* Lines 430-436 and 438-528: the page request failed.
PageError(h) ==
    /\ run[h].pc = "pageWait"
    /\ run' = [run EXCEPT ![h] = PageFailed(@)]
    /\ UNCHANGED <<world, requests, fs, net, pure>>

\* Lines 542-547 and 559-562: the file was read; it is sent, then unlinked.
SendArtifact(h) ==
    /\ run[h].pc = "readWait"
    /\ run' = [run EXCEPT ![h].responses = Append(@, ArtifactResponse(run[h].db)),
                          ![h].trace = Append(@, Event("FINALIZED", 0)),
                          ![h].pc = "unlinkWait"]
    /\ UNCHANGED <<world, requests, fs, net, pure>>

\* Lines 562-568: fs.unlink resolved, or rejected (line 564): a file whose
\* database handle is still open cannot be unlinked on every platform.
UnlinkDone(h) ==
    /\ run[h].pc = "unlinkWait"
    /\ \E deleted \in (IF run[h].dbOpen THEN BOOLEAN ELSE {TRUE}) :
          fs' = [fs EXCEPT !.files = IF deleted THEN @ \ {run[h].tempDbFilePath} ELSE @]
    /\ run' = [run EXCEPT ![h].pc = "done"]
    /\ UNCHANGED <<world, requests, net, pure>>

\* Lines 122-130: list-bases validates, then requests the bases at once.
ReceiveList(h) ==
    /\ requests[h].kind = "list"
    /\ run[h].pc = "idle"
    /\ IF ~requests[h].apiKey
       THEN /\ run' = [run EXCEPT ![h].responses = <<BadRequestResponse>>, ![h].pc = "done"]
            /\ net' = net
       ELSE /\ run' = [run EXCEPT ![h].pc = "listWait",
                                  ![h].sent = <<[ep |-> "bases", table |-> "", offset |-> 0]>>]
            /\ net' = NoteRequest(net)
    /\ UNCHANGED <<world, requests, fs, pure>>

\* Lines 131-137: the bases arrived, or the request failed.
ListResponse(h) ==
    /\ run[h].pc = "listWait"
    /\ \E resp \in { [status |-> 200, kind |-> "json", items |-> {"bases"}, file |-> EmptyDb],
                     [status |-> 500, kind |-> "json", items |-> {"message"}, file |-> EmptyDb] } :
          run' = [run EXCEPT ![h].responses = <<resp>>, ![h].pc = "done"]
    /\ UNCHANGED <<world, requests, fs, net, pure>>

Next ==
    \/ Tick
    \/ \E h \in Handlers :
          \/ ReceiveGenerate(h)
          \/ SendSchemaRequest(h)
          \/ SchemaArrived(h)
          \/ SchemaFailed(h)
          \/ StructureBuilt(h)
          \/ SendPageRequest(h)
          \/ PageResponse(h)
          \/ PageError(h)
          \/ SendArtifact(h)
          \/ UnlinkDone(h)
          \/ ReceiveList(h)
          \/ ListResponse(h)

Spec == Init /\ [][Next]_vars

\* A step of handler h at an await other than those of fs.mkdtemp and of a
\* page request: the callback that resumes it runs.
Resumed(h) ==
    \/ ReceiveGenerate(h)
    \/ SendSchemaRequest(h)
    \/ SchemaArrived(h)
    \/ SchemaFailed(h)
    \/ SendPageRequest(h)
    \/ SendArtifact(h)
    \/ UnlinkDone(h)
    \/ ReceiveList(h)
    \/ ListResponse(h)

\* The awaits of fs.mkdtemp (line 195) and of a page request (line 423).
\* StructureBuilt(h) is enabled exactly at the first, PageResponse(h) and
\* PageError(h) exactly at the second, and each of them leaves it.
SettlingStates == {"mkdtempWait", "pageWait"}

\* The server with its scheduling: time passes while a timer is pending,
\* and the event loop runs the continuation of every await that settles;
\* every request to the API and every file operation settles, by a result
\* or by an error.  For the two awaits of SettlingStates the fairness of
\* their continuations is stated by the enabling condition: the handler is
\* not at such an await for ever.
LiveSpec ==
    /\ Init
    /\ [][Next]_vars
    /\ WF_vars(Tick)
    /\ \A h \in Handlers : WF_vars(Resumed(h))
    /\ \A h \in Handlers : []<>(run[h].pc \notin SettlingStates)


-----------------------------------------------------------------------------
(* The functions of the server, evaluated on their own.  The initial state *)
(* draws an input: a name for sanitizeColumnName, a list of fields for     *)
(* getDeDuplicatedColumnMappings, or a schema for lines 199-401, which     *)
(* then run statement by statement and loop iteration by loop iteration,   *)
(* so that the order of what they do to the database shows in the states.  *)

\* Bounds of the inputs.
MaxNameLen == 4
MaxFields == 3
MaxTables == 2

\* A letter of each case, a digit, the underscore, and a character outside
\* the class [a-zA-Z0-9_].
NameAlphabet == {"a", "B", "1", "_", "-"}

\* The names of at most MaxNameLen characters.
Names == UNION { [1..n -> NameAlphabet] : n \in 0..MaxNameLen }

T_Status == <<"S", "t", "a", "t", "u", "s">>
T_status == <<"s", "t", "a", "t", "u", "s">>
T_status_1 == <<"s", "t", "a", "t", "u", "s", "_", "1">>
T_id_1 == <<"i", "d", "_", "1">>

\* Field names that collide with each other, with the key column, or with
\* the names the de-duplication makes up.
CollidingNames == { T_Status, T_status, T_status_1, F_ID, N_id, T_id_1, F_Name, <<>> }

\* The field at position i of a list, named `name`.
FieldAt(i, name, type, options) == Field("fld" \o ToString(i), name, type, options)

\* The lists of at most MaxFields text fields with names of CollidingNames.
FieldLists ==
    UNION { { [i \in 1..n |-> FieldAt(i, names[i], "singleLineText", NoOptions)] :
                names \in [1..n -> CollidingNames] } : n \in 0..MaxFields }

T_A == <<"A">>
T_A_B == <<"A", "_", "B">>
T_A_space_B == <<"A", " ", "B">>
T_C == <<"C">>
T_B_C == <<"B", "_", "C">>

\* The fields of the tables of a schema: plain ones, and links whose
\* junction table names can coincide across tables named A and A_B.
SchemaFieldLists ==
    { <<>>,
      << FieldAt(1, F_Name, "singleLineText", NoOptions) >>,
      << FieldAt(1, F_Name, "singleLineText", NoOptions),
         FieldAt(2, T_C, "multipleRecordLinks", LinkOptions("tbl1")) >>,
      << FieldAt(1, T_B_C, "multipleRecordLinks", LinkOptions("tbl1")) >>,
      << FieldAt(1, T_C, "multipleRecordLinks", LinkOptions("tbl1")),
         FieldAt(2, T_C, "number", NoOptions) >>,
      << FieldAt(1, T_C, "multipleRecordLinks", LinkOptions("tbl1")),
         FieldAt(2, <<"c">>, "multipleRecordLinks", LinkOptions("tbl2")) >>,
      << FieldAt(1, F_Name, "singleLineText", NoOptions),
         FieldAt(2, T_C, "multipleRecordLinks", LinkOptions("tbl1")),
         FieldAt(3, F_ID, "number", PrecisionOptions(2)) >> }

SchemaTableNames == { T_A, T_A_B, T_A_space_B }

\* The table at position t of a schema; its field ids carry the position.
TableAt(t, name, fields) ==
    Table("tbl" \o ToString(t), name, "",
          [i \in DOMAIN fields |-> [fields[i] EXCEPT !.id = ToString(t) \o @]])

\* The schemas of at most MaxTables tables.
Schemas ==
    UNION { { [t \in 1..n |-> TableAt(t, names[t], lists[t])] :
                names \in [1..n -> SchemaTableNames],
                lists \in [1..n -> SchemaFieldLists] } : n \in 0..MaxTables }

\* Names that look like the names the server makes up for its own tables.
T_link_A_C == LinkPrefix \o <<"A", "_", "C">>
ReservedLookingNames ==
    { T_link_A_C,
      <<"_", "L", "I", "N", "K", "_", "a">>,
      <<"-", "_", "l", "i", "n", "k", "_", "a">>,
      MetaTablesName, MetaFieldsName,
      <<"_">> \o MetaFieldsName,
      <<" ", "_", "A", "I", "R", "T", "A", "B", "L", "E", "_", "M", "E", "T", "A", "_", "x">> }

\* Schemas with a table named like the junction table of another table, or
\* like the metadata tables.
ReservedLookingSchemas ==
    { << TableAt(1, T_A, << FieldAt(1, F_Name, "singleLineText", NoOptions),
                            FieldAt(2, T_C, "multipleRecordLinks", LinkOptions("tbl2")) >>),
         TableAt(2, T_link_A_C, << FieldAt(1, F_Name, "singleLineText", NoOptions) >>) >>,
      << TableAt(1, MetaTablesName, << FieldAt(1, F_Name, "singleLineText", NoOptions) >>),
         TableAt(2, MetaFieldsName,
                 << FieldAt(1, F_Name, "singleLineText", NoOptions),
                    FieldAt(2, T_C, "multipleRecordLinks", LinkOptions("tbl1")) >>) >> }

SanitizeArgs ==
    { [fn |-> "sanitizeColumnName", name |-> x] : x \in Names \cup ReservedLookingNames }

DeDupArgs == { [fn |-> "getDeDuplicatedColumnMappings", fields |-> x] : x \in FieldLists }

StructureArgs ==
    { [fn |-> "structure", tablesSchema |-> x] : x \in Schemas \cup ReservedLookingSchemas }

\* One table whose pages deliver the record id d1 three times: first with
\* a date that cannot be bound, then twice with one that can.
RepeatBase ==
    [tables |->
        << Table("tblR", <<"R">>, "fldWhen",
                 << Field("fldWhen", F_When, "date", NoOptions),
                    Field("fldRef", F_Ref, "multipleRecordLinks",
                          LinkOptions("tblR")) >>) >>,
     pages |->
        ("tblR" :>
            << << Rec("d1", (F_When :> JsBool(TRUE)) @@ (F_Ref :> JsList(<<"d2">>))),
                  Rec("d1", (F_When :> JsStr("2024-01-01"))
                            @@ (F_Ref :> JsList(<<"d3">>))) >>,
               << Rec("d1", (F_When :> JsStr("2024-01-02"))
                            @@ (F_Ref :> JsList(<<"d4">>))),
                  Rec("d2", (F_When :> JsStr("2024-01-03"))) >> >>)]

\* The tables of the bases that have records, each with all its pages.
WriteArgs ==
    UNION { { [fn |-> "insertTransaction", base |-> b, t |-> t] : t \in DOMAIN b.tables } :
              b \in {TasksBase, LogBase, RepeatBase} }

\* The precisions of a numeric field go from 0 to MaxPrecision.
MaxPrecision == 8

\* The type tags of the switch, and one it does not know.
TypeTags == KnownTypes \cup {"unknownType"}

FieldOptions ==
    {NoOptions, LinkOptions("tbl1")} \cup { PrecisionOptions(p) : p \in 0..MaxPrecision }

MapTypeArgs ==
    { [fn |-> "mapAirtableTypeToSQLite", type |-> t, options |-> o] :
        t \in TypeTags, o \in FieldOptions }

\* Values of record.fields: absent, null, booleans, numbers, strings, arrays
\* of strings, a collaborator.
FieldValues ==
    { JsUndefined, JsNull, JsBool(TRUE), JsBool(FALSE), JsNum(0), JsNum(7),
      JsStr(""), JsStr("abc"), JsStr("12"), JsList(<<>>), JsList(<<"r1", "r2">>),
      JsObj("Ann", "", "usr1") }

FormatArgs ==
    { [fn |-> "formatValueForSQLite", value |-> v, type |-> t, options |-> o] :
        v \in FieldValues, t \in TypeTags, o \in {NoOptions, PrecisionOptions(2)} }

FunctionInit ==
    /\ world = NoTablesBase
    /\ requests = [h \in Handlers |-> NoRequest]
    /\ run = [h \in Handlers |-> InitRun]
    /\ fs = InitFs
    /\ net = InitNet
    /\ arg \in SanitizeArgs \cup DeDupArgs \cup StructureArgs \cup WriteArgs
                \cup MapTypeArgs \cup FormatArgs
    /\ out = NoOut

\* sanitizeColumnName(name) returns (lines 20-32).
Sanitize ==
    /\ arg.fn = "sanitizeColumnName"
    /\ out = NoOut
    /\ out' = [at |-> "returned", value |-> sanitizeColumnName(arg.name)]
    /\ UNCHANGED <<server, arg>>

\* getDeDuplicatedColumnMappings(fields, primaryFieldId, 'id') returns (lines 77-109).
DeDuplicate ==
    /\ arg.fn = "getDeDuplicatedColumnMappings"
    /\ out = NoOut
    /\ out' = [at |-> "returned",
               value |-> getDeDuplicatedColumnMappings(arg.fields, "fld1", N_id)]
    /\ UNCHANGED <<server, arg>>

\* mapAirtableTypeToSQLite(type, options) returns (lines 34-58).
MapType ==
    /\ arg.fn = "mapAirtableTypeToSQLite"
    /\ out = NoOut
    /\ out' = [at |-> "returned", value |-> mapAirtableTypeToSQLite(arg.type, arg.options)]
    /\ UNCHANGED <<server, arg>>

\* formatValueForSQLite(value, type, options) returns (lines 60-75, called at line 479).
FormatValue ==
    /\ arg.fn = "formatValueForSQLite"
    /\ out = NoOut
    /\ out' = [at |-> "returned",
               value |-> formatValueForSQLite(arg.value, arg.type, arg.options)]
    /\ UNCHANGED <<server, arg>>

\* insertStmt.run binds the value (line 484) into a column declared with
\* the type of the field (line 353), and the column is read back; a value
\* that cannot be bound makes run() throw.
StoreValue ==
    /\ arg.fn = "formatValueForSQLite"
    /\ out # NoOut
    /\ out.at = "returned"
    /\ out' = IF Bindable(out.value)
              THEN [at |-> "stored",
                    value |-> StoredValue(out.value,
                                  mapAirtableTypeToSQLite(arg.type, arg.options))]
              ELSE [at |-> "threw", value |-> out.value]
    /\ UNCHANGED <<server, arg>>

\* The state of lines 199-401 between two statements: the plan so far
\* (acc.tables, acc.junctions), the database (acc.db), the tables still to
\* be planned, and the statements prepared for the junction tables.
Structure(at, acc, todo, stmts) == [at |-> at, acc |-> acc, todo |-> todo, stmts |-> stmts]

\* Line 199 and lines 202-223: the database is opened, the metadata tables
\* are created; the loop of line 245 is about to run.
MetadataTablesCreated(meta, tablesSchema) ==
    Structure(IF meta.ok THEN "planning" ELSE "failed",
              [ok |-> meta.ok, db |-> meta.db, tables |-> <<>>, junctions |-> <<>>],
              tablesSchema, {})

OpenAndCreateMetadata ==
    /\ arg.fn = "structure"
    /\ out = NoOut
    /\ out' = MetadataTablesCreated(CreateMetadataTables(EmptyDb), arg.tablesSchema)
    /\ UNCHANGED <<server, arg>>

\* One iteration of the loop over tablesSchema (lines 245-327) has run; a
\* statement that threw rolls the transaction back.
TablePlanned(acc, todo, before) ==
    IF acc.ok THEN Structure("planning", acc, Tail(todo), {})
    ELSE Structure("failed", [acc EXCEPT !.db = before], todo, {})

PlanNextTable ==
    /\ arg.fn = "structure"
    /\ out # NoOut
    /\ out.at = "planning"
    /\ out.todo # <<>>
    /\ out' = TablePlanned(PlanTable(Head(out.todo), out.acc), out.todo,
                           CreateMetadataTables(EmptyDb).db)
    /\ UNCHANGED <<server, arg>>

\* The table-creation transaction (lines 335-401) has run.
TablesCreated(acc, made) ==
    Structure(IF made.ok THEN "created" ELSE "failed",
              [acc EXCEPT !.ok = made.ok, !.db = made.db], <<>>, made.stmts)

CreateTables ==
    /\ arg.fn = "structure"
    /\ out # NoOut
    /\ out.at = "planning"
    /\ out.todo = <<>>
    /\ out' = TablesCreated(out.acc,
                  CreateDataTables(out.acc.db, arg.tablesSchema, out.acc.tables,
                                   out.acc.junctions))
    /\ UNCHANGED <<server, arg>>

\* Lines 199-460 for the base of arg: the structure is created and the
\* INSERT statement of the table is prepared.
StructureFor(plan, tablesSchema) ==
    TablesCreated(plan, CreateDataTables(plan.db, tablesSchema, plan.tables, plan.junctions))

PrepareInsert ==
    /\ arg.fn = "insertTransaction"
    /\ out = NoOut
    /\ out' = StructureFor(PopulateMetadata(CreateMetadataTables(EmptyDb).db, arg.base.tables),
                            arg.base.tables)
    /\ UNCHANGED <<server, arg>>

\* The state after insertTransaction(allRecords) returned or threw (line 522).
Inserted(before, w) ==
    [at |-> IF w.ok THEN "committed" ELSE "rolledBack",
     acc |-> [before.acc EXCEPT !.db = w.db], todo |-> <<>>, stmts |-> before.stmts,
     before |-> before.acc.db, stats |-> w.stats]

\* Lines 466-522 for the records of all pages of the table.
InsertBatch ==
    /\ arg.fn = "insertTransaction"
    /\ out # NoOut
    /\ out.at = "created"
    /\ CanPrepareInsert(out.acc.db, out.acc.tables[arg.t].sqliteName,
                        InsertColNames(MainInsertMappings(out.acc.tables[arg.t])))
    /\ \E commits \in BOOLEAN :
          out' = Inserted(out,
                     RunInsertTransaction(out.acc.db, out.acc.tables[arg.t],
                         PagesUpTo(arg.base.pages[arg.base.tables[arg.t].id],
                                   Len(arg.base.pages[arg.base.tables[arg.t].id])),
                         out.stmts, commits))
    /\ UNCHANGED <<server, arg>>

FunctionNext ==
    \/ Sanitize
    \/ DeDuplicate
    \/ OpenAndCreateMetadata
    \/ PlanNextTable
    \/ CreateTables
    \/ PrepareInsert
    \/ InsertBatch
    \/ MapType
    \/ FormatValue
    \/ StoreValue

FunctionSpec == FunctionInit /\ [][FunctionNext]_vars

-----------------------------------------------------------------------------
(* Vocabulary of the properties                                            *)

\* The handlers that serve a generate-snapshot request.
GenHandlers == { h \in Handlers : requests[h].kind = "generate" }

HasEvent(trace, ev) == \E i \in DOMAIN trace : trace[i].ev = ev

\* The values of the first column in the rows of a table: the `id` of the
\* rows of a data table, the `source_id` of the rows of a junction table.
RowIds(db, name) ==
    IF HasTable(db, name)
    THEN { TableOf(db, name).rows[i][1].v : i \in DOMAIN TableOf(db, name).rows }
    ELSE {}

\* The configuration the plan holds for a source table.
ConfigOf(r, tableId) == r.viewerTables[FindConfig(r.viewerTables, tableId)]

\* Every value of the record's row can be bound to the INSERT statement.
Storable(record, config) ==
    \A v \in Range(ValuesToInsertMain(record, MainInsertMappings(config))) : Bindable(v)

\* Record i of a batch written into an empty data table is accepted: its
\* values can be bound and no earlier accepted record has its id.
Accepted(batch, config, i) ==
    /\ Storable(batch[i], config)
    /\ \A j \in 1..(i - 1) : ~(Storable(batch[j], config) /\ batch[j].id = batch[i].id)

AcceptedIds(batch, config) ==
    { batch[i].id : i \in { j \in DOMAIN batch : Accepted(batch, config, j) } }

\* The record requests a handler has sent for a table.
RecordRequests(r, tableId) ==
    { i \in DOMAIN r.sent : r.sent[i].ep = "records" /\ r.sent[i].table = tableId }

\* A table's fetch failed part-way, or a row was skipped.
Degraded(r) ==
    \E j \in DOMAIN r.tlog :
        \/ r.tlog[j].fetchFailed
        \/ r.tlog[j].stats.failedMainInserts > 0
        \/ r.tlog[j].stats.failedJunctionInserts > 0

\* What the artifact response of lines 544-547 is made of.
ArtifactItems == {"Content-Type", "Content-Disposition", "Content-Length", "body"}

\* The value of a numeric field of the record is there and is not a number.
GarbageNumeric(record, config) ==
    \E f \in Range(config.fields) :
        /\ f.type \in NumericTypes
        /\ ~IsNullish(FieldValue(record, f.name))
        /\ ToNumber(FieldValue(record, f.name)) = JsNaN

-----------------------------------------------------------------------------
(* C1                                                                      *)

\* C1: whenever a table's fetch failed part-way or a row was skipped, the
\* response that carries the artifact also carries a count of what was
\* skipped: it holds something besides the three headers and the file.
C1_ArtifactCarriesSkipCount ==
    \A h \in GenHandlers : \A i \in DOMAIN run[h].responses :
        (run[h].responses[i].kind = "sqlite" /\ Degraded(run[h]))
            => run[h].responses[i].items \ ArtifactItems # {}

-----------------------------------------------------------------------------
(* C2                                                                      *)

\* What C2 says of one table whose fetch ended by a failed request.
PagesKept(r, e) ==
    /\ Cardinality(RecordRequests(r, e.tableId)) = e.pagesOk + 1
    /\ e.batch = PagesUpTo(world.pages[e.tableId], e.pagesOk)
    /\ RowIds(r.db, e.sqliteName) = AcceptedIds(e.batch, ConfigOf(r, e.tableId))

-----------------------------------------------------------------------------
(* C3                                                                      *)

\* C3: a run that has created all tables and has finished has fetched and
\* written every table of the schema and has ended in FINALIZED.
C3_EveryTableProcessedAfterStructure ==
    \A h \in GenHandlers :
        (HasEvent(run[h].trace, "STRUCTURE_CREATED") /\ run[h].pc = "done")
            => /\ HasEvent(run[h].trace, "FINALIZED")
               /\ \A t \in DOMAIN run[h].tablesSchema :
                     Event("written", t) \in Range(run[h].trace)

-----------------------------------------------------------------------------
(* C4                                                                      *)

\* What C4 says of one table whose batch was written.
RowFailuresCounted(r, e) ==
    /\ e.stats.successfulMainInserts + e.stats.failedMainInserts = Len(e.batch)
    /\ e.stats.successfulMainInserts =
          Cardinality({ i \in DOMAIN e.batch : Accepted(e.batch, ConfigOf(r, e.tableId), i) })
    /\ RowIds(r.db, e.sqliteName) = AcceptedIds(e.batch, ConfigOf(r, e.tableId))

\* The write of the current table threw.
WriteThrew(r) ==
    /\ Len(r.trace) >= 2
    /\ r.trace[Len(r.trace)] = Event("FAILED", r.tIdx)
    /\ r.trace[Len(r.trace) - 1] = Event("WRITING", r.tIdx)

\* C4: in every batch written, each record is attempted and counted once, as
\* a success or as a failure; the records whose insert fails are skipped and
\* all others are in the table, whatever failed before them; and the write
\* of a table throws only when its INSERT statement cannot be prepared,
\* never because of a record.
C4_RowFailureSkippedAndCounted ==
    \A h \in GenHandlers :
        /\ \A j \in DOMAIN run[h].tlog : RowFailuresCounted(run[h], run[h].tlog[j])
        /\ WriteThrew(run[h]) =>
              ~CanPrepareInsert(run[h].db,
                   ConfigOf(run[h], run[h].tablesSchema[run[h].tIdx].id).sqliteName,
                   InsertColNames(MainInsertMappings(
                       ConfigOf(run[h], run[h].tablesSchema[run[h].tIdx].id))))

\* The four records of Log were attempted: two failed (a date that cannot be
\* bound, an id that is there already), and r3, which comes after the first
\* failure, is in the table; the artifact was delivered.
C4_Witness ==
    /\ world = LogBase
    /\ run[1].pc = "done"
    /\ Len(run[1].tlog) = 1
    /\ Len(run[1].tlog[1].batch) = 4
    /\ run[1].tlog[1].stats.failedMainInserts = 2
    /\ run[1].tlog[1].stats.successfulMainInserts = 2
    /\ RowIds(run[1].db, run[1].tlog[1].sqliteName) = {"r1", "r3"}
    /\ run[1].responses[1].kind = "sqlite"

-----------------------------------------------------------------------------
(* C5                                                                      *)

\* C5: a record whose value for a numeric field is not a number has no row
\* in the data table, and it is counted among the failed inserts.
C5_GarbageNumberRowSkipped ==
    \A h \in GenHandlers : \A j \in DOMAIN run[h].tlog :
        \A i \in DOMAIN run[h].tlog[j].batch :
            GarbageNumeric(run[h].tlog[j].batch[i],
                           ConfigOf(run[h], run[h].tlog[j].tableId))
                => /\ run[h].tlog[j].batch[i].id
                        \notin RowIds(run[h].db, run[h].tlog[j].sqliteName)
                   /\ run[h].tlog[j].stats.failedMainInserts >= 1

-----------------------------------------------------------------------------
(* C6                                                                      *)

\* Row `row` of the junction table of link field f comes from a record of
\* the batch whose own row was accepted, and links it to one of its targets.
LinkOfAccepted(row, f, batch, config) ==
    \E i \in DOMAIN batch :
        /\ Accepted(batch, config, i)
        /\ batch[i].id = row[1].v
        /\ FieldValue(batch[i], f.name).k = "list"
        /\ row[2].v \in Range(FieldValue(batch[i], f.name).v)

\* What C6 says of the junction table of one link field of table c.
NoOrphanLinks(r, c, f) ==
    \A row \in Range(TableOf(r.db, f.junctionTable).rows) :
        /\ row[1].v \in RowIds(r.db, c.sqliteName)
        /\ \E j \in DOMAIN r.tlog :
              /\ r.tlog[j].tableId = c.id
              /\ LinkOfAccepted(row, f, r.tlog[j].batch, c)

\* C6: every row of a junction table has as source_id the id of a record
\* whose row is in the data table of the table the link field belongs to,
\* and was written for a record of that table's batch whose own insert
\* succeeded; a record whose insert failed has none of its links written.
C6_NoLinksOfFailedRecords ==
    \A h \in GenHandlers : \A c \in Range(run[h].viewerTables) :
        \A f \in Range(FilterFields(c.fields, TRUE)) :
            HasTable(run[h].db, f.junctionTable) => NoOrphanLinks(run[h], c, f)

\* Log was written: r2, whose insert failed, names r1 in Ref, and the second
\* r1, whose insert failed too, names r3; the junction table holds neither
\* link, only the one of the first r1.
C6_Witness ==
    /\ world = LogBase
    /\ Len(run[1].tlog) = 1
    /\ run[1].tlog[1].stats.failedMainInserts = 2
    /\ run[1].tlog[1].stats.successfulJunctionInserts = 1
    /\ HasTable(run[1].db, generateJunctionTableName(<<"L", "o", "g">>, F_Ref))
    /\ TableOf(run[1].db, generateJunctionTableName(<<"L", "o", "g">>, F_Ref)).rows
          = << <<JsStr("r1"), JsStr("r1")>> >>

-----------------------------------------------------------------------------
(* C7                                                                      *)

\* C7: once the output file was created, an error response is never sent
\* while the file still exists.
C7_ArtifactDeletedBeforeError ==
    \A h \in GenHandlers :
        (run[h].tempDbFilePath # 0 /\ \E i \in DOMAIN run[h].responses :
                                          run[h].responses[i].status = 500)
            => run[h].tempDbFilePath \notin fs.files

-----------------------------------------------------------------------------
(* C8                                                                      *)

\* What C8 says of one handler.
FatalBeforeSchema(h) ==
    /\ (run[h].pc # "idle" /\ (~requests[h].apiKey \/ ~requests[h].baseId))
          => /\ run[h].pc = "done"
             /\ run[h].sent = <<>>
             /\ run[h].responses = <<BadRequestResponse>>
    /\ ~HasEvent(run[h].trace, "SCHEMA_FETCHED")
          => /\ run[h].tempDbFilePath = 0
             /\ run[h].db = EmptyDb
             /\ \A i \in DOMAIN run[h].sent : run[h].sent[i].ep # "records"
    /\ (HasEvent(run[h].trace, "FAILED") /\ ~HasEvent(run[h].trace, "SCHEMA_FETCHED"))
          => /\ run[h].pc = "done"
             /\ Len(run[h].responses) = 1
             /\ run[h].responses[1].status \in {400, 500}
             /\ "message" \in run[h].responses[1].items

\* C8: with the credential or the base id missing, the handler ends at once
\* with a 400 response that has a message and sends no request at all; as
\* long as no schema has arrived, the handler has no temporary directory and
\* no storage file, and has sent no record request; a run that fails before
\* the schema arrived ends with one error response that has a message; and
\* the directories and files on disk are those of the handlers that got
\* past the schema.
C8_FatalWithoutArtifact ==
    /\ \A h \in GenHandlers : FatalBeforeSchema(h)
    /\ fs.dirs = { run[h].tempDbFilePath : h \in Handlers } \ {0}
    /\ fs.files \subseteq fs.dirs

\* The schema request failed: the caller has the 500 response, nothing is
\* on disk, and the schema request is the only one that was sent.
C8_Witness ==
    /\ run[1].trace = << Event("INIT", 0), Event("request", 0), Event("FAILED", 0) >>
    /\ run[1].pc = "done"
    /\ run[1].responses = <<ServerErrorResponse>>
    /\ Len(run[1].sent) = 1
    /\ fs = InitFs

-----------------------------------------------------------------------------
(* C9                                                                      *)

\* C9: any two successive requests of the server to the Airtable API are at
\* least the fixed delay apart.
C9_GlobalThrottle == net.lastGap >= AIRTABLE_RATE_LIMIT_DELAY

-----------------------------------------------------------------------------
(* C10                                                                     *)

\* Event b may directly follow event a in the trace of a run over n tables.
MayFollow(a, b, n) ==
    CASE b.ev = "request" /\ b.t = 0 -> a = Event("INIT", 0)
      [] b.ev = "SCHEMA_FETCHED"     -> a = Event("request", 0)
      [] b.ev = "PLAN_BUILT"         -> a = Event("SCHEMA_FETCHED", 0)
      [] b.ev = "STRUCTURE_CREATED"  -> a = Event("PLAN_BUILT", 0)
      [] b.ev = "FETCHING" ->
            \/ b.t = 1 /\ a = Event("STRUCTURE_CREATED", 0)
            \/ b.t > 1 /\ a = Event("written", b.t - 1)
      [] b.ev = "request" /\ b.t > 0 ->
            a = Event("FETCHING", b.t) \/ a = Event("request", b.t)
      [] b.ev = "WRITING"  -> a = Event("request", b.t)
      [] b.ev = "written"  -> a = Event("WRITING", b.t)
      [] b.ev = "FINALIZED" ->
            \/ n = 0 /\ a = Event("STRUCTURE_CREATED", 0)
            \/ n > 0 /\ a = Event("written", n)
      [] b.ev = "FAILED" -> TRUE
      [] OTHER -> FALSE

\* The trace of one run is a prefix of a run through the stages.
Sequential(trace, n) ==
    /\ trace # <<>> => trace[1] = Event("INIT", 0)
    /\ \A i \in 1..(Len(trace) - 1) :
          /\ trace[i].ev \notin {"FINALIZED", "FAILED"}
          /\ MayFollow(trace[i], trace[i + 1], n)

\* C10: a run passes INIT, the schema request, SCHEMA_FETCHED, PLAN_BUILT and
\* STRUCTURE_CREATED in this order, then for each table in schema order
\* FETCHING, its page requests, WRITING and the end of its write, then
\* FINALIZED; FAILED is the only other end, and nothing follows an end.  So
\* every page request of a table precedes its write, and the first request
\* of the next table follows the end of that write.
C10_StagesInOrder ==
    \A h \in GenHandlers : Sequential(run[h].trace, Len(run[h].tablesSchema))

\* A run over two tables, the first of two pages, has reached FINALIZED.
C10_Witness ==
    /\ world = TasksBase
    /\ HasEvent(run[1].trace, "FINALIZED")
    /\ Cardinality({ i \in DOMAIN run[1].trace : run[1].trace[i] = Event("request", 1) }) = 2
    /\ Event("written", 2) \in Range(run[1].trace)


-----------------------------------------------------------------------------
(* Vocabulary of the properties of lines 199-401                           *)

\* Lines 199-401 are running and the loop over tablesSchema (line 245) has
\* tables left: viewerConfigData.tables and junctionTablesToCreate are not
\* complete.
PlanIncomplete == arg.fn = "structure" /\ out # NoOut /\ out.at = "planning" /\ out.todo # <<>>

\* Lines 199-401 have run without an error.
StructureCreated == arg.fn = "structure" /\ out # NoOut /\ out.at = "created"

\* The keys of the two metadata tables in the database.
MetaNames == { ToLowerCase(MetaTablesName), ToLowerCase(MetaFieldsName) }

\* The rows of every table of a database, counted.
RECURSIVE CountRows(_, _)
CountRows(db, names) ==
    IF names = {} THEN 0
    ELSE LET n == CHOOSE x \in names : TRUE
         IN Len(db.tables[n].rows) + CountRows(db, names \ {n})

-----------------------------------------------------------------------------
-----------------------------------------------------------------------------
(* Vocabulary of the properties of getDeDuplicatedColumnMappings           *)

\* The function has returned for the fields of arg.
DeDupReturned == arg.fn = "getDeDuplicatedColumnMappings" /\ out # NoOut

\* The sanitized name of the field at position i of the input.
San(i) == sanitizeColumnName(arg.fields[i].name)

\* The final name of the field at position i, and its lower-case form.
Final(i) == out.value[i].sqliteName
FinalLower(i) == ToLowerCase(out.value[i].sqliteName)

\* The names in use when the field at position i is reached: the key
\* column and the final names of the fields before it, in lower case.
UsedBefore(i) == {N_id} \cup { FinalLower(j) : j \in 1..(i - 1) }

\* No field before position i has the same sanitized name (in any case).
FirstOfBase(i) == \A j \in 1..(i - 1) : ToLowerCase(San(j)) # ToLowerCase(San(i))

\* `name` is `base` with a numeric suffix, the case of letters aside.
IsSuffixed(name, base) ==
    \E n \in 1..(MaxFields + 1) : ToLowerCase(name) = ToLowerCase(SuffixedName(base, n))

-----------------------------------------------------------------------------
\* C12: for every list of fields, getDeDuplicatedColumnMappings returns a
\* list of the same length whose names are pairwise distinct whatever the
\* case of their letters, none of them being the key column's name `id`.
C12_DeDupUniqueSameLength ==
    DeDupReturned =>
        /\ Len(out.value) = Len(arg.fields)
        /\ \A i, j \in DOMAIN out.value : FinalLower(i) = FinalLower(j) => i = j
        /\ \A i \in DOMAIN out.value : FinalLower(i) # N_id

\* Three fields whose sanitized names are the same, and a list with a field
\* named like the key column, have been de-duplicated.
C12_Witness ==
    /\ DeDupReturned
    /\ Len(arg.fields) = MaxFields
    /\ \A i \in DOMAIN arg.fields : ToLowerCase(San(i)) \in {T_status, N_id}
    /\ \E i \in DOMAIN arg.fields : ToLowerCase(San(i)) = N_id
    /\ \E i, j \in DOMAIN arg.fields : i # j /\ ToLowerCase(San(i)) = T_status /\ San(i) = San(j)

\* C13: a field whose sanitized name is `id` in any case is not given the
\* name `id`: it gets `id_<n>`, n being the lowest number for which `id_<n>`
\* is not in use when the field is reached.
C13_IdFieldSuffixed ==
    DeDupReturned =>
        \A i \in DOMAIN arg.fields :
            ToLowerCase(San(i)) = N_id =>
                /\ Final(i) # N_id
                /\ \E n \in 1..(MaxFields + 1) :
                      /\ Final(i) = SuffixedName(N_id, n)
                      /\ ToLowerCase(Final(i)) \notin UsedBefore(i)
                      /\ \A m \in 1..(n - 1) :
                            ToLowerCase(SuffixedName(N_id, m)) \in UsedBefore(i)

\* A field named ID that follows a field named id_1 has been named id_2,
\* and a field named ID with nothing in its way has been named id_1.
C13_Witness ==
    /\ DeDupReturned
    /\ \E i \in DOMAIN arg.fields :
          /\ arg.fields[i].name = F_ID
          /\ Final(i) = SuffixedName(N_id, 2)
    /\ \E i \in DOMAIN arg.fields :
          /\ arg.fields[i].name = F_ID
          /\ Final(i) = T_id_1

\* C14, as stated: the fields "Status" and "status", in that order, are
\* named `Status` and `Status_1`.  It does not hold: the suffix is put on
\* the later field's own name (line 83), which gives `status_1`.
C14_StatusThenStatus_1 ==
    (DeDupReturned /\ Len(arg.fields) = 2
        /\ arg.fields[1].name = T_Status /\ arg.fields[2].name = T_status) =>
            /\ Final(1) = T_Status
            /\ Final(2) = SuffixedName(T_Status, 1)

\* C15, as stated: the first field of a sanitized name keeps it, every later
\* field of that name (in any case) gets a numeric suffix.  It does not
\* hold: the first field named ID is named id_1, and the first field named
\* status_1 after "Status" and "status" is named status_1_1.
C15_FirstKeepsItsName ==
    DeDupReturned =>
        \A i \in DOMAIN arg.fields :
            IF FirstOfBase(i) THEN Final(i) = San(i)
            ELSE Final(i) # San(i) /\ IsSuffixed(Final(i), San(i))

\* C15, amended: the first field of a sanitized name keeps it unless the
\* name is `id` or is already the final name of an earlier field (any
\* case); such a field, and every later field of the same sanitized name,
\* gets a numeric suffix.
C15_FirstKeepsItsNameUnlessTaken ==
    DeDupReturned =>
        \A i \in DOMAIN arg.fields :
            IF FirstOfBase(i) /\ ToLowerCase(San(i)) \notin UsedBefore(i)
            THEN Final(i) = San(i)
            ELSE Final(i) # San(i) /\ IsSuffixed(Final(i), San(i))

\* "Status", "status", "status_1": the second field is a later field of its
\* name and is suffixed; the third is the first of its name, which the
\* second has taken, and is suffixed too.
C15_Witness ==
    /\ DeDupReturned
    /\ Len(arg.fields) = 3
    /\ Final(1) = San(1)
    /\ ~FirstOfBase(2) /\ Final(2) = SuffixedName(San(2), 1)
    /\ FirstOfBase(3) /\ ToLowerCase(San(3)) # N_id /\ Final(3) = SuffixedName(San(3), 1)


-----------------------------------------------------------------------------
(* Vocabulary of the properties of sanitizeColumnName                      *)

\* The function has returned for the name of arg.
SanitizeReturned == arg.fn = "sanitizeColumnName" /\ out # NoOut

IsAlphaNum(c) == IsWordChar(c) /\ c # "_"

\* A letter or digit of `s` is at position i and another follows, with
\* only other characters in between: the result joins them with one `_`.
Separated(s, i, j) ==
    /\ i < j /\ IsAlphaNum(s[i]) /\ IsAlphaNum(s[j])
    /\ j > i + 1
    /\ \A k \in (i + 1)..(j - 1) : ~IsAlphaNum(s[k])

-----------------------------------------------------------------------------
\* C16, as stated: sanitizeColumnName(sanitizeColumnName(x)) is
\* sanitizeColumnName(x) for every name x.  It does not hold for the empty
\* name: the placeholder `_invalid_name_` is longer than one character and
\* loses its leading and trailing underscore when sanitized again.
C16_SanitizeIdempotent == SanitizeReturned => sanitizeColumnName(out.value) = out.value

-----------------------------------------------------------------------------
(* Vocabulary of the properties of the tables lines 199-401 create         *)

IsLink(field) == field.type = "multipleRecordLinks"

\* The linked-record fields of a schema, as <<table position, field position>>.
LinkFields(tablesSchema) ==
    { tf \in (DOMAIN tablesSchema) \X (1..MaxFields) :
        /\ tf[2] \in DOMAIN tablesSchema[tf[1]].fields
        /\ IsLink(tablesSchema[tf[1]].fields[tf[2]]) }

\* The storage name the plan gives the table at position t, and the one it
\* gives the field at position i of that table.
TableNameAt(t) == out.acc.tables[t].sqliteName
FieldNameAt(t, i) == out.acc.tables[t].fields[i].sqliteName

\* The junction table name of the linked-record field at <<t, i>>.
JunctionAt(t, i) == out.acc.tables[t].fields[i].junctionTable

\* The table at position t is the first of the schema with its storage name.
FirstOfName(t) == \A u \in 1..(t - 1) : ToLowerCase(TableNameAt(u)) # ToLowerCase(TableNameAt(t))

-----------------------------------------------------------------------------
\* C18: once the structure is created, every linked-record field has no
\* column among those of its table, and has one junction table, planned
\* once and created, whose name is `_link_`, the storage name of the table,
\* `_`, and the storage name of the field.
C18_LinkFieldGetsJunctionNotColumn ==
    StructureCreated =>
        /\ Len(out.acc.tables) = Len(arg.tablesSchema)
        /\ Len(out.acc.junctions) = Cardinality(LinkFields(arg.tablesSchema))
        /\ \A t \in DOMAIN arg.tablesSchema :
              /\ out.acc.tables[t].id = arg.tablesSchema[t].id
              /\ TableNameAt(t) = sanitizeColumnName(arg.tablesSchema[t].name)
              /\ Len(MainTableCols(out.acc.tables[t]))
                    = 1 + Len(arg.tablesSchema[t].fields)
                        - Cardinality({ tf \in LinkFields(arg.tablesSchema) : tf[1] = t })
              /\ FirstOfName(t) =>
                    TableOf(out.acc.db, TableNameAt(t)).cols = MainTableCols(out.acc.tables[t])
        /\ \A tf \in LinkFields(arg.tablesSchema) :
              /\ out.acc.tables[tf[1]].fields[tf[2]].id = arg.tablesSchema[tf[1]].fields[tf[2]].id
              /\ \A c \in DOMAIN MainTableCols(out.acc.tables[tf[1]]) :
                    ToLowerCase(MainTableCols(out.acc.tables[tf[1]])[c].name)
                        # ToLowerCase(FieldNameAt(tf[1], tf[2]))
              /\ JunctionAt(tf[1], tf[2])
                    = LinkPrefix \o TableNameAt(tf[1]) \o <<"_">> \o FieldNameAt(tf[1], tf[2])
              /\ \E k \in DOMAIN out.acc.junctions :
                    /\ out.acc.junctions[k].name = JunctionAt(tf[1], tf[2])
                    /\ out.acc.junctions[k].sourceTableSqliteName = TableNameAt(tf[1])
                    /\ out.acc.junctions[k].fieldSqliteName = FieldNameAt(tf[1], tf[2])
              /\ HasTable(out.acc.db, JunctionAt(tf[1], tf[2]))
              /\ TableOf(out.acc.db, JunctionAt(tf[1], tf[2])).cols = JunctionCols
              /\ JunctionAt(tf[1], tf[2]) \in out.stmts

\* The structure is created for two tables, one with a plain field and a
\* linked-record field, the other with two linked-record fields.
C18_Witness ==
    /\ StructureCreated
    /\ Len(arg.tablesSchema) = 2
    /\ Len(out.acc.junctions) = 3
    /\ \E t \in DOMAIN arg.tablesSchema :
          /\ Len(arg.tablesSchema[t].fields) = 2
          /\ ~IsLink(arg.tablesSchema[t].fields[1])
          /\ IsLink(arg.tablesSchema[t].fields[2])
          /\ Len(TableOf(out.acc.db, TableNameAt(t)).cols) = 2


-----------------------------------------------------------------------------
\* C19, as stated: once the structure is created, two source tables of
\* different names have different storage names, and the data table of
\* each has the columns planned for it.  It does not hold: table names are
\* sanitized and not de-duplicated (lines 246, 338), so "A_B" and "A B" are
\* both stored as A_B, and CREATE TABLE IF NOT EXISTS (line 346) leaves the
\* second with the data table created for the first.
C19_DistinctDataTables ==
    StructureCreated =>
        \A t, u \in DOMAIN arg.tablesSchema :
            /\ arg.tablesSchema[t].name # arg.tablesSchema[u].name =>
                  ToLowerCase(TableNameAt(t)) # ToLowerCase(TableNameAt(u))
            /\ TableOf(out.acc.db, TableNameAt(t)).cols = MainTableCols(out.acc.tables[t])

\* C20, as stated, for the linked-record fields of one table or of two
\* tables whose storage names differ: once the structure is created, two
\* such fields have different junction tables.  It does not hold: the name
\* `_link_<table>_<field>` (line 112) has the separator that names contain,
\* so the field B_C of table A and the field C of table A_B both get
\* _link_A_B_C, and the second is given the table of the first (line 375).
C20_DistinctJunctionTables ==
    StructureCreated =>
        \A tf, ug \in LinkFields(arg.tablesSchema) :
            (/\ tf # ug
             /\ tf[1] # ug[1] => ToLowerCase(TableNameAt(tf[1])) # ToLowerCase(TableNameAt(ug[1]))) =>
                ToLowerCase(JunctionAt(tf[1], tf[2])) # ToLowerCase(JunctionAt(ug[1], ug[2]))


-----------------------------------------------------------------------------
\* The positions, in order, of the fields that are not linked-record fields.
RECURSIVE PlainPositions(_, _)
PlainPositions(fields, i) ==
    IF i > Len(fields) THEN <<>>
    ELSE IF IsLink(fields[i]) THEN PlainPositions(fields, i + 1)
    ELSE <<i>> \o PlainPositions(fields, i + 1)

\* The column a data table must have for the field at position i of the
\* source table at position t: the name de-duplication gives the field, the
\* type of the field's type tag and options.
ColumnOfField(t, i) ==
    Col(getDeDuplicatedColumnMappings(arg.tablesSchema[t].fields,
                                      arg.tablesSchema[t].primaryFieldId, N_id)[i].sqliteName,
        mapAirtableTypeToSQLite(arg.tablesSchema[t].fields[i].type,
                                arg.tablesSchema[t].fields[i].options),
        FALSE)

\* The data table `table` is the one of the source table at position t.
IsDataTableOf(table, t) ==
    /\ table.pk = <<N_id>>
    /\ Len(table.cols) = 1 + Len(PlainPositions(arg.tablesSchema[t].fields, 1))
    /\ table.cols[1] = Col(N_id, "TEXT", FALSE)
    /\ \A k \in 1..Len(PlainPositions(arg.tablesSchema[t].fields, 1)) :
          table.cols[k + 1] = ColumnOfField(t, PlainPositions(arg.tablesSchema[t].fields, 1)[k])
    /\ \A c \in 2..Len(table.cols) : ToLowerCase(table.cols[c].name) # N_id

\* C21: once the structure is created, the tables of the file are the two
\* metadata tables, the junction tables, and one data table per storage
\* name; a data table has the key column `id` of type TEXT first, as its
\* primary key, then one column per field of its source table that is not a
\* linked-record field, in the order of the fields and under their
\* de-duplicated names, none of which is `id`.  Its source table is the
\* first of the schema with that storage name.
C21_DataTableColumns ==
    StructureCreated =>
        /\ \A t \in DOMAIN arg.tablesSchema :
              /\ HasTable(out.acc.db, TableNameAt(t))
              /\ FirstOfName(t) => IsDataTableOf(TableOf(out.acc.db, TableNameAt(t)), t)
        /\ \A n \in DOMAIN out.acc.db.tables :
              \/ n \in MetaNames
              \/ \E t \in DOMAIN arg.tablesSchema : n = ToLowerCase(TableNameAt(t))
              \/ \E tf \in LinkFields(arg.tablesSchema) : n = ToLowerCase(JunctionAt(tf[1], tf[2]))

\* The data table of a table with the fields Name, C (linked) and ID has
\* been created with the columns id, Name, id_1.
C21_Witness ==
    /\ StructureCreated
    /\ \E t \in DOMAIN arg.tablesSchema :
          /\ FirstOfName(t)
          /\ Len(arg.tablesSchema[t].fields) = 3
          /\ ColNames(TableOf(out.acc.db, TableNameAt(t)).cols) = <<N_id, F_Name, T_id_1>>
          /\ TableOf(out.acc.db, TableNameAt(t)).cols[3].type = "REAL"


-----------------------------------------------------------------------------
(* Properties of the rows of the junction tables                           *)

\* The rows <<record id, target id>> for the accepted records of a batch
\* and the targets each holds in the link field f.
LinkPairsOf(batch, config, f) ==
    UNION { { <<JsStr(batch[i].id), JsStr(t)>> : t \in Range(FieldValue(batch[i], f.name).v) } :
              i \in { j \in DOMAIN batch : /\ Accepted(batch, config, j)
                                           /\ FieldValue(batch[j], f.name).k = "list" } }

\* What C22 says of the junction table of link field f of a written table.
JunctionRowsExact(r, e, c, f) ==
    /\ HasTable(r.db, f.junctionTable)
    /\ LinkPairsOf(e.batch, c, f) \subseteq Range(TableOf(r.db, f.junctionTable).rows)
    /\ NoDuplicates(TableOf(r.db, f.junctionTable).rows)
    /\ e.stats.failedJunctionInserts = 0

\* C22: after a table is written, the junction table of each of its link
\* fields holds one row <<source_id, target_id>> for every distinct pair of
\* a record whose own row was written and a target id in its value of the
\* field; a pair that is there already is ignored: no failure is counted,
\* no second row is added, and the table is written.
C22_JunctionRowsOncePerPair ==
    \A h \in GenHandlers : \A j \in DOMAIN run[h].tlog :
        \A f \in Range(FilterFields(ConfigOf(run[h], run[h].tlog[j].tableId).fields, TRUE)) :
            JunctionRowsExact(run[h], run[h].tlog[j],
                              ConfigOf(run[h], run[h].tlog[j].tableId), f)

\* Tasks was written from both pages: rec2 names p1 twice, four junction
\* inserts ran without a failure, and the junction table holds three rows.
C22_Witness ==
    /\ world = TasksBase
    /\ run[1].pc = "done"
    /\ Len(run[1].tlog) = 2
    /\ Len(run[1].tlog[1].batch) = 2
    /\ run[1].tlog[1].stats.successfulJunctionInserts = 4
    /\ run[1].tlog[1].stats.failedJunctionInserts = 0
    /\ TableOf(run[1].db, generateJunctionTableName(
                              <<"T", "a", "s", "k", "s">>,
                              sanitizeColumnName(F_Linked))).rows
          = << <<JsStr("rec1"), JsStr("p1")>>, <<JsStr("rec1"), JsStr("p2")>>,
               <<JsStr("rec2"), JsStr("p1")>> >>


-----------------------------------------------------------------------------
(* Properties of insertTransaction                                         *)

\* insertTransaction has run for the table of arg and ended as `how`.
InsertEnded(how) == arg.fn = "insertTransaction" /\ out # NoOut /\ out.at = how

\* The records handed to insertTransaction: all pages of the table.
BatchOfArg ==
    PagesUpTo(arg.base.pages[arg.base.tables[arg.t].id],
              Len(arg.base.pages[arg.base.tables[arg.t].id]))

\* Every insert of the batch that succeeded is in the database, and no
\* table the batch does not write has changed.
BatchApplied(db, before, config, batch) ==
    /\ RowIds(db, config.sqliteName) = AcceptedIds(batch, config)
    /\ Len(TableOf(db, config.sqliteName).rows) = Cardinality(AcceptedIds(batch, config))
    /\ \A f \in Range(FilterFields(config.fields, TRUE)) :
          /\ LinkPairsOf(batch, config, f) \subseteq Range(TableOf(db, f.junctionTable).rows)
          /\ Range(TableOf(db, f.junctionTable).rows) \subseteq
                LinkPairsOf(batch, config, f) \cup Range(TableOf(before, f.junctionTable).rows)
    /\ \A n \in DOMAIN db.tables :
          (n # ToLowerCase(config.sqliteName)
             /\ \A f \in Range(FilterFields(config.fields, TRUE)) :
                   n # ToLowerCase(f.junctionTable))
              => db.tables[n] = before.tables[n]

\* C23: the inserts of a table's records, into its data table and into its
\* junction tables, run in one transaction: when the transaction throws,
\* the database is what it was before the batch, with none of the batch's
\* rows; when it returns, every insert of the batch that succeeded is there.
C23_BatchInOneTransaction ==
    /\ InsertEnded("rolledBack") => out.acc.db = out.before
    /\ InsertEnded("committed") =>
          BatchApplied(out.acc.db, out.before, out.acc.tables[arg.t], BatchOfArg)

\* The transaction of Tasks, whose two records have links, could not be
\* committed: the data table and the junction table are empty as before.
C23_Witness ==
    /\ InsertEnded("rolledBack")
    /\ arg.base = TasksBase
    /\ arg.t = 1
    /\ Len(BatchOfArg) = 2
    /\ RowIds(out.acc.db, out.acc.tables[1].sqliteName) = {}
    /\ TableOf(out.acc.db, out.acc.tables[1].fields[3].junctionTable).rows = <<>>


-----------------------------------------------------------------------------
(* Properties of mapAirtableTypeToSQLite and formatValueForSQLite          *)

\* C24: for the type tags number, currency, percent and duration the column
\* type is REAL when the options hold a precision that is not 0, and
\* INTEGER when the precision is 0 or there are no options or no precision.
C24_NumericTypeByPrecision ==
    (arg.fn = "mapAirtableTypeToSQLite" /\ out # NoOut /\ arg.type \in NumericTypes) =>
        out.value = IF arg.options.has /\ arg.options.precision.k = "num"
                       /\ arg.options.precision.v # 0
                    THEN "REAL" ELSE "INTEGER"

\* A currency field of precision 2 has been given the type REAL.
C24_Witness ==
    /\ arg.fn = "mapAirtableTypeToSQLite"
    /\ out # NoOut
    /\ arg.type = "currency"
    /\ arg.options = PrecisionOptions(2)
    /\ out.value = "REAL"

\* The value of arg has been formatted / formatted, bound and read back.
Formatted == arg.fn = "formatValueForSQLite" /\ out # NoOut /\ out.at = "returned"
ReadBack == arg.fn = "formatValueForSQLite" /\ out # NoOut /\ out.at \in {"stored", "threw"}

\* C25: formatValueForSQLite turns the value true of a checkbox field into
\* 1 and false into 0, and null or an absent value into null whatever the
\* type tag; bound and read back from the column of the field, the value is
\* 1, 0 and NULL.
C25_BooleanAndNullEncoding ==
    /\ (Formatted /\ arg.type = "checkbox" /\ arg.value.k = "bool") =>
          out.value = JsNum(IF arg.value.v THEN 1 ELSE 0)
    /\ (Formatted /\ IsNullish(arg.value)) => out.value = JsNull
    /\ (ReadBack /\ arg.type = "checkbox" /\ arg.value.k = "bool") =>
          out.at = "stored" /\ out.value = JsNum(IF arg.value.v THEN 1 ELSE 0)
    /\ (ReadBack /\ IsNullish(arg.value)) => out.at = "stored" /\ out.value = JsNull

\* The value true of a checkbox field has been stored and read back as 1.
C25_Witness ==
    /\ ReadBack
    /\ arg.type = "checkbox"
    /\ arg.value = JsBool(TRUE)
    /\ out.value = JsNum(1)


-----------------------------------------------------------------------------
(* Properties of the rows of _airtable_meta_fields                         *)

\* The rows of _airtable_meta_fields whose id is `id`.
MetaFieldRows(db, id) ==
    { k \in DOMAIN TableOf(db, MetaFieldsName).rows :
        TableOf(db, MetaFieldsName).rows[k][1] = JsStr(id) }

\* The only row of _airtable_meta_fields whose id is `id`.
MetaFieldRow(db, id) ==
    TableOf(db, MetaFieldsName).rows[CHOOSE k \in MetaFieldRows(db, id) : TRUE]

\* The number of fields of the tables at positions 1..n of a schema.
RECURSIVE CountFields(_, _)
CountFields(tablesSchema, n) ==
    IF n = 0 THEN 0 ELSE Len(tablesSchema[n].fields) + CountFields(tablesSchema, n - 1)

\* The junction table name of the field at position i of the source table
\* at position t, from the names of the table and of the field.
JunctionNameFor(t, i) ==
    generateJunctionTableName(
        sanitizeColumnName(arg.tablesSchema[t].name),
        getDeDuplicatedColumnMappings(arg.tablesSchema[t].fields,
                                      arg.tablesSchema[t].primaryFieldId, N_id)[i].sqliteName)

\* What C26 says of the row of the field at position i of table t:
\* columns 2, 8 and 9 are table_id, is_primary_key and junction_table_name.
FieldRowAsClaimed(db, t, i, row) ==
    /\ row[2] = JsStr(arg.tablesSchema[t].id)
    /\ row[8] = JsNum(0)
    /\ IF IsLink(arg.tablesSchema[t].fields[i])
       THEN row[9] = JsName(JunctionNameFor(t, i)) /\ HasTable(db, JunctionNameFor(t, i))
       ELSE row[9] = JsNull

\* C26: once the structure is created, _airtable_meta_fields holds one row
\* per source field and one row per source table for the key column `id`,
\* and no other; the row of a field has is_primary_key 0 and, as
\* junction_table_name, the name of the junction table created for it when
\* it is a linked-record field and NULL otherwise; the row of a key column
\* has is_primary_key 1.
C26_MetaFieldsRows ==
    StructureCreated =>
        /\ Len(TableOf(out.acc.db, MetaFieldsName).rows)
              = Len(arg.tablesSchema) + CountFields(arg.tablesSchema, Len(arg.tablesSchema))
        /\ \A t \in DOMAIN arg.tablesSchema :
              /\ Cardinality(MetaFieldRows(out.acc.db,
                                 "synthetic_pk_id_for_" \o arg.tablesSchema[t].id)) = 1
              /\ MetaFieldRow(out.acc.db,
                     "synthetic_pk_id_for_" \o arg.tablesSchema[t].id)[8] = JsNum(1)
              /\ MetaFieldRow(out.acc.db,
                     "synthetic_pk_id_for_" \o arg.tablesSchema[t].id)[2]
                    = JsStr(arg.tablesSchema[t].id)
              /\ \A i \in DOMAIN arg.tablesSchema[t].fields :
                    /\ Cardinality(MetaFieldRows(out.acc.db,
                                                 arg.tablesSchema[t].fields[i].id)) = 1
                    /\ FieldRowAsClaimed(out.acc.db, t, i,
                           MetaFieldRow(out.acc.db, arg.tablesSchema[t].fields[i].id))

\* Two tables with five fields between them, linked-record fields and
\* others: seven rows, some with a junction table name and some without.
C26_Witness ==
    /\ StructureCreated
    /\ Len(arg.tablesSchema) = 2
    /\ Len(TableOf(out.acc.db, MetaFieldsName).rows) = 7
    /\ \E k \in DOMAIN TableOf(out.acc.db, MetaFieldsName).rows :
          /\ TableOf(out.acc.db, MetaFieldsName).rows[k][8] = JsNum(0)
          /\ TableOf(out.acc.db, MetaFieldsName).rows[k][9] # JsNull
    /\ \E k \in DOMAIN TableOf(out.acc.db, MetaFieldsName).rows :
          /\ TableOf(out.acc.db, MetaFieldsName).rows[k][8] = JsNum(0)
          /\ TableOf(out.acc.db, MetaFieldsName).rows[k][9] = JsNull

-----------------------------------------------------------------------------
(* The storage handle at the end of a run                                  *)

\* C27: a run that has ended has closed the storage handle it opened, and
\* a run that hands the artifact to the caller has closed it before.
C27_HandleClosedWhenRunEnds ==
    \A h \in GenHandlers :
        /\ run[h].pc = "done" => ~run[h].dbOpen
        /\ (\E i \in DOMAIN run[h].responses : run[h].responses[i].kind = "sqlite")
              => ~run[h].dbOpen

-----------------------------------------------------------------------------
(* Writers of a storage file                                               *)

\* The handlers whose storage file is f.
OwnersOf(f) == { h \in GenHandlers : run[h].tempDbFilePath = f }

\* The handlers whose database content changes in a step.
WritersOfStep == { h \in Handlers : run'[h].db # run[h].db }

\* The storage files created or deleted in a step.
FilesOfStep == (fs'.files \ fs.files) \cup (fs.files \ fs'.files)

\* No two runs have the same storage file, and every file on disk is the
\* file of one run.
DistinctArtifacts ==
    /\ \A g, h \in GenHandlers :
          (g # h /\ run[g].tempDbFilePath # 0)
              => run[g].tempDbFilePath # run[h].tempDbFilePath
    /\ \A f \in fs.files : Cardinality(OwnersOf(f)) = 1

\* A step writes for at most one run, and creates or deletes only the file
\* of the run that takes the step.
OneWriterStep ==
    /\ Cardinality(WritersOfStep) <= 1
    /\ \A f \in FilesOfStep :
          \E h \in GenHandlers :
             /\ run'[h].tempDbFilePath = f
             /\ run'[h].pc # run[h].pc
             /\ \A g \in Handlers \ {h} : run'[g] = run[g]
    /\ \A h \in WritersOfStep :
          /\ run'[h].tempDbFilePath # 0
          /\ \A g \in Handlers \ {h} : run'[g].tempDbFilePath # run'[h].tempDbFilePath

\* C28: at most one writer touches a storage file at any time: no two runs
\* handled at the same time have the same file, each step writes the
\* database of one run only, and a file is created or deleted only by the
\* run it belongs to.
C28_OneWriterPerArtifact == [][OneWriterStep]_vars /\ []DistinctArtifacts

\* Two snapshot requests for the same base are both between the creation of
\* their file and its deletion, both with tables written to their file.
C28_Witness ==
    /\ requests[1] = requests[2]
    /\ requests[1].kind = "generate"
    /\ \A h \in {1, 2} :
          /\ run[h].tempDbFilePath \in fs.files
          /\ run[h].dbOpen
          /\ run[h].db # EmptyDb

-----------------------------------------------------------------------------
(* The delay before a request                                              *)

\* The awaits of setTimeout (lines 155 and 420).
DelayStates == {"schemaDelay", "pageDelay"}

\* Handler h sends a request to the Airtable API in this step.
SendsRequest(h) == Len(run'[h].sent) > Len(run[h].sent)

\* What C29 says of one step of handler h: a delay that starts is the full
\* delay; while it runs the handler does nothing and the timer only runs
\* down with time; a request is sent from a delay that has run out, and
\* one request at a time.
DelayedStep(h) ==
    /\ (run'[h].pc \in DelayStates /\ run[h].pc \notin DelayStates)
          => run'[h].timer = AIRTABLE_RATE_LIMIT_DELAY
    /\ (run[h].pc \in DelayStates /\ run'[h].pc \in DelayStates)
          => /\ run'[h].pc = run[h].pc
             /\ run'[h].sent = run[h].sent
             /\ run'[h].timer \in {run[h].timer, Max(0, run[h].timer - TickMs)}
    /\ (run[h].pc \in DelayStates /\ run'[h].pc \notin DelayStates)
          => SendsRequest(h)
    /\ SendsRequest(h)
          => /\ run[h].pc \in DelayStates
             /\ run[h].timer = 0
             /\ Len(run'[h].sent) = Len(run[h].sent) + 1

\* C29: within a snapshot run every request to the Airtable API, the schema
\* request and every page request, the first included, is sent only when
\* the full delay started just before it has run out.
C29_DelayBeforeEveryRequest == [][\A h \in GenHandlers : DelayedStep(h)]_vars

\* A run has sent the schema request, the first page request of a table and
\* a request for a further page of it.
C29_Witness ==
    /\ Len(run[1].sent) >= 3
    /\ run[1].sent[1].ep = "schema"
    /\ \E i \in DOMAIN run[1].sent :
          run[1].sent[i].ep = "records" /\ run[1].sent[i].offset # 0
    /\ \E i \in DOMAIN run[1].sent :
          run[1].sent[i].ep = "records" /\ run[1].sent[i].offset = 0

-----------------------------------------------------------------------------
(* The page loop and the end of a run                                      *)

\* Handler h is about to request a further page of the table it fetched.
FurtherPageNext(h) ==
    /\ run'[h].pc = "pageDelay"
    /\ run'[h].tIdx = run[h].tIdx

\* What C30 says of a step of handler h that ends the wait for a page: a
\* further page of the table is requested exactly when a response came and
\* carried a cursor, and it is requested at that cursor.
PagingStep(h) ==
    /\ PageResponse(h)
          => IF PageAfter(run[h].tablesSchema[run[h].tIdx].id, run[h].offset).offset # 0
             THEN /\ FurtherPageNext(h)
                  /\ run'[h].offset
                        = PageAfter(run[h].tablesSchema[run[h].tIdx].id, run[h].offset).offset
             ELSE ~FurtherPageNext(h)
    /\ PageError(h) => ~FurtherPageNext(h)
    /\ (SendsRequest(h) /\ run[h].pc = "pageDelay")
          => run'[h].sent[Len(run'[h].sent)]
                = [ep |-> "records", table |-> run[h].tablesSchema[run[h].tIdx].id,
                   offset |-> run[h].offset]

\* The requests a run has sent for the records of a table follow the
\* cursors: the first is sent without a cursor, each further one with the
\* cursor of the response to the one before.
SentFollowsCursors(r) ==
    \A i \in DOMAIN r.sent :
        r.sent[i].ep = "records"
            => IF i > 1 /\ r.sent[i - 1].ep = "records" /\ r.sent[i - 1].table = r.sent[i].table
               THEN /\ r.sent[i].offset # 0
                    /\ r.sent[i].offset = PageAfter(r.sent[i].table, r.sent[i - 1].offset).offset
               ELSE r.sent[i].offset = 0

\* The run of handler h has ended and has sent one response.
Terminated(h) == run[h].pc = "done" /\ Len(run[h].responses) = 1

\* C30: for each table a further page is requested exactly when the
\* response before carried a cursor; and when every request settles, every
\* snapshot run ends having sent a response, also for a table without
\* records.
C30_PagesFollowCursorsAndRunEnds ==
    /\ [][\A h \in Handlers : PagingStep(h)]_vars
    /\ [](\A h \in Handlers : SentFollowsCursors(run[h]))
    /\ \A h \in Handlers : (requests[h].kind = "generate") ~> Terminated(h)

\* A run over a table of two pages and a table of one page has ended by
\* sending the file: three page requests, one of them with a cursor.
C30_Witness ==
    /\ world = TasksBase
    /\ Terminated(1)
    /\ run[1].responses[1].kind = "sqlite"
    /\ Cardinality(RecordRequests(run[1], "tblTasks")) = 2
    /\ Cardinality(RecordRequests(run[1], "tblProjects")) = 1
    /\ \E i \in DOMAIN run[1].sent : run[1].sent[i].offset # 0

\* A run over a table without records has ended by sending the file.
ZeroRecordsRunEnded ==
    /\ world = EmptyTableBase
    /\ Terminated(1)
    /\ run[1].responses[1].kind = "sqlite"
    /\ Cardinality(RecordRequests(run[1], "tblE")) = 1

-----------------------------------------------------------------------------
(* What is handed to formatValueForSQLite when a table is written          *)

\* The structure is created and the table of arg is about to be written,
\* or was.
WriteReached == arg.fn = "insertTransaction" /\ out # NoOut

\* The names of the linked-record fields of the source table of arg.
LinkFieldNames ==
    { arg.base.tables[arg.t].fields[i].name :
        i \in { j \in DOMAIN arg.base.tables[arg.t].fields :
                  IsLink(arg.base.tables[arg.t].fields[j]) } }

\* C31: when a table is written, formatValueForSQLite is called for the
\* columns that are not linked-record fields only: no call reads a
\* linked-record field or carries its type tag, and every other field of
\* the table is read by one.
C31_LinkValuesNotFormatted ==
    WriteReached =>
        \A r \in Range(BatchOfArg) :
            /\ \A c \in FormatCalls(r, MainInsertMappings(out.acc.tables[arg.t])) :
                  /\ c.airtableType # "multipleRecordLinks"
                  /\ c.name \notin LinkFieldNames
            /\ { c.name : c \in FormatCalls(r, MainInsertMappings(out.acc.tables[arg.t])) }
                  = { arg.base.tables[arg.t].fields[i].name :
                        i \in DOMAIN arg.base.tables[arg.t].fields } \ LinkFieldNames

\* Tasks is written: its records carry links, which are in the junction
\* table, while the encoder was called for Name and Done.
C31_Witness ==
    /\ InsertEnded("committed")
    /\ arg.base = TasksBase
    /\ arg.t = 1
    /\ LinkFieldNames = {F_Linked}
    /\ \E r \in Range(BatchOfArg) : FieldValue(r, F_Linked).k = "list"
    /\ Len(TableOf(out.acc.db, out.acc.tables[1].fields[3].junctionTable).rows) = 3

-----------------------------------------------------------------------------
(* Data tables and the tables the server names itself                      *)

\* The prefix of the names of the two metadata tables.
MetaPrefix == <<"_", "a", "i", "r", "t", "a", "b", "l", "e", "_", "m", "e", "t", "a", "_">>

\* The keys, in the database, of the junction tables of the plan.
JunctionKeys ==
    { ToLowerCase(JunctionAt(tf[1], tf[2])) : tf \in LinkFields(arg.tablesSchema) }

\* C32: whatever the name, sanitizeColumnName returns no name that starts
\* with `_link_` or `_airtable_meta_`, in any case of the letters; and in a
\* created structure no data table has the name of a junction table or of
\* a metadata table.
C32_DataTableNamesApart ==
    /\ SanitizeReturned
          => /\ ~StartsWith(ToLowerCase(out.value), LinkPrefix)
             /\ ~StartsWith(ToLowerCase(out.value), MetaPrefix)
    /\ StructureCreated
          => \A t \in DOMAIN arg.tablesSchema :
                /\ TableNameAt(t) = sanitizeColumnName(arg.tablesSchema[t].name)
                /\ ToLowerCase(TableNameAt(t)) \notin MetaNames \cup JunctionKeys
                /\ ~StartsWith(ToLowerCase(TableNameAt(t)), LinkPrefix)
                /\ ~StartsWith(ToLowerCase(TableNameAt(t)), MetaPrefix)

\* A table is named as the junction table of field C of table A is: both
\* tables are in the database, the data table as link_A_C.
C32_Witness ==
    /\ StructureCreated
    /\ Len(arg.tablesSchema) = 2
    /\ arg.tablesSchema[2].name = T_link_A_C
    /\ Len(arg.tablesSchema[1].fields) = 2
    /\ JunctionAt(1, 2) = T_link_A_C
    /\ TableNameAt(2) = <<"l", "i", "n", "k", "_", "A", "_", "C">>
    /\ HasTable(out.acc.db, TableNameAt(2))
    /\ HasTable(out.acc.db, JunctionAt(1, 2))

-----------------------------------------------------------------------------
(* The responses of a run                                                  *)

\* The response is one of the three a snapshot request can get.
IsSnapshotResponse(resp) ==
    \/ resp = BadRequestResponse
    \/ resp = ServerErrorResponse
    \/ resp.status = 200 /\ resp.kind = "sqlite"

\* C33: the handling of a generate-snapshot request never sends a second
\* response, and when it has ended it has sent one: the file, the 400 of
\* the validation or the 500 of the catch block.
C33_ExactlyOneResponse ==
    \A h \in GenHandlers :
        /\ Len(run[h].responses) <= 1
        /\ \A i \in DOMAIN run[h].responses : IsSnapshotResponse(run[h].responses[i])
        /\ run[h].pc = "done" => Len(run[h].responses) = 1
        /\ (run[h].pc # "idle" /\ (~requests[h].apiKey \/ ~requests[h].baseId))
              => run[h].responses = <<BadRequestResponse>>

\* A run has ended by the catch block after it had created its file: it
\* has sent the 500 and nothing else.
C33_Witness ==
    /\ world = ReservedBase
    /\ run[1].pc = "done"
    /\ run[1].tempDbFilePath # 0
    /\ HasEvent(run[1].trace, "FAILED")
    /\ run[1].responses = <<ServerErrorResponse>>

-----------------------------------------------------------------------------
(* The counts of a batch                                                   *)

\* The rows of the data table of the table of arg, in a database.
DataRowsIn(db) == TableOf(db, out.acc.tables[arg.t].sqliteName).rows

\* C34: when the insert transaction of a batch has returned, the main
\* inserts counted as successful and as failed are together as many as the
\* records of the batch, and the data table has as many rows more than
\* before as inserts were counted successful.
C34_MainInsertCounts ==
    InsertEnded("committed") =>
        /\ out.stats.successfulMainInserts + out.stats.failedMainInserts = Len(BatchOfArg)
        /\ Len(DataRowsIn(out.acc.db)) - Len(DataRowsIn(out.before))
              = out.stats.successfulMainInserts

\* The four records of Log are written: two inserts fail, two rows are added.
C34_Witness ==
    /\ InsertEnded("committed")
    /\ arg.base = LogBase
    /\ Len(BatchOfArg) = 4
    /\ out.stats.successfulMainInserts = 2
    /\ out.stats.failedMainInserts = 2
    /\ Len(DataRowsIn(out.acc.db)) = 2
    /\ DataRowsIn(out.before) = <<>>

-----------------------------------------------------------------------------
(* Record ids as keys of the rows                                          *)

\* The row the main INSERT builds for a record of the table of arg.
RowOfRecord(record) ==
    BuildRow(TableOf(out.acc.db, out.acc.tables[arg.t].sqliteName),
             InsertColNames(MainInsertMappings(out.acc.tables[arg.t])),
             ValuesToInsertMain(record, MainInsertMappings(out.acc.tables[arg.t])))

\* The rows of the data table whose id is `id`.
RowsWithId(id) ==
    { k \in DOMAIN DataRowsIn(out.acc.db) : DataRowsIn(out.acc.db)[k][1] = JsStr(id) }

\* The positions of the batch that are not the first with their record id.
LaterOccurrences ==
    { i \in DOMAIN BatchOfArg : \E j \in 1..(i - 1) : BatchOfArg[j].id = BatchOfArg[i].id }

\* The positions of the batch whose insert went through.
AcceptedPositions ==
    { i \in DOMAIN BatchOfArg : Accepted(BatchOfArg, out.acc.tables[arg.t], i) }

\* The rows of the data table are those of the records at `stored`, one
\* each, in order; the others were counted as failed and left no junction
\* row.
StoredExactly(stored) ==
    /\ Len(DataRowsIn(out.acc.db)) = Cardinality(stored)
    /\ \A i \in stored :
          /\ Cardinality(RowsWithId(BatchOfArg[i].id)) = 1
          /\ \A k \in RowsWithId(BatchOfArg[i].id) :
                DataRowsIn(out.acc.db)[k] = RowOfRecord(BatchOfArg[i])
    /\ out.stats.failedMainInserts = Len(BatchOfArg) - Cardinality(stored)
    /\ \A f \in Range(FilterFields(out.acc.tables[arg.t].fields, TRUE)) :
          Range(TableOf(out.acc.db, f.junctionTable).rows) =
             UNION { { <<JsStr(BatchOfArg[i].id), JsStr(t)>> :
                         t \in Range(FieldValue(BatchOfArg[i], f.name).v) } :
                       i \in { j \in stored : FieldValue(BatchOfArg[j], f.name).k = "list" } }

\* C35, as stated: after a table is written no two rows share an id, each
\* row holds the id of its record, and of the records with the same id
\* only the first is stored, each later one being counted as failed with
\* no junction row.  It does not hold when the insert of the first fails.
C35_FirstOfRepeatedIdStored ==
    InsertEnded("committed") =>
        /\ \A i \in DOMAIN BatchOfArg : Cardinality(RowsWithId(BatchOfArg[i].id)) <= 1
        /\ StoredExactly({ i \in DOMAIN BatchOfArg :
                             /\ i \notin LaterOccurrences
                             /\ Storable(BatchOfArg[i], out.acc.tables[arg.t]) })

\* C35, amended: after a table is written no two rows share an id, each
\* row holds the id and the values of its record, and of the records with
\* the same id only the first whose insert does not fail is stored, every
\* other one being counted as failed with no junction row.
C35_FirstStorableOfRepeatedIdStored ==
    InsertEnded("committed") =>
        /\ \A i \in DOMAIN BatchOfArg : Cardinality(RowsWithId(BatchOfArg[i].id)) <= 1
        /\ StoredExactly(AcceptedPositions)

\* The id d1 was delivered three times, first with a date that cannot be
\* bound: the second delivery is the row, the first and the third are
\* counted as failed.
C35_Witness ==
    /\ InsertEnded("committed")
    /\ arg.base = RepeatBase
    /\ AcceptedPositions = {2, 4}
    /\ LaterOccurrences = {2, 3}
    /\ out.stats.failedMainInserts = 2
    /\ RowIds(out.acc.db, out.acc.tables[1].sqliteName) = {"d1", "d2"}

-----------------------------------------------------------------------------
(* The INSERT statement and the data table                                 *)

\* The column names of the data table under the storage name of table t.
DataTableColNames(t) ==
    [c \in DOMAIN TableOf(out.acc.db, TableNameAt(t)).cols |->
        TableOf(out.acc.db, TableNameAt(t)).cols[c].name]

\* C36: once the structure is created, for every source table the columns
\* the main INSERT names (lines 442-458) are the columns of the data table
\* under the table's storage name, in the same order, and the statement
\* can be prepared.
C36_InsertColumnsAreTableColumns ==
    StructureCreated =>
        \A t \in DOMAIN arg.tablesSchema :
            /\ HasTable(out.acc.db, TableNameAt(t))
            /\ InsertColNames(MainInsertMappings(out.acc.tables[t])) = DataTableColNames(t)
            /\ CanPrepareInsert(out.acc.db, TableNameAt(t),
                                InsertColNames(MainInsertMappings(out.acc.tables[t])))

-----------------------------------------------------------------------------
(* What the write of a table leaves alone                                  *)

\* The configuration of the table a handler is fetching.
CurrentConfig(r) == r.viewerTables[FindConfig(r.viewerTables, r.tablesSchema[r.tIdx].id)]

\* The keys, in the database, of the tables the write of a table may
\* change: its data table and the junction tables of its link fields.
WriteTargets(config) ==
    {ToLowerCase(config.sqliteName)} \cup
    { ToLowerCase(f.junctionTable) : f \in Range(FilterFields(config.fields, TRUE)) }

\* Sequence `a` is the beginning of sequence `b`.
IsPrefixOf(a, b) == Len(a) <= Len(b) /\ SubSeq(b, 1, Len(a)) = a

\* What C37 says of a step in which handler h writes the table it fetched.
WriteFrame(h) ==
    (run[h].pc = "pageWait" /\ run'[h].db # run[h].db) =>
        /\ DOMAIN run'[h].db.tables = DOMAIN run[h].db.tables
        /\ MetaNames \cap WriteTargets(CurrentConfig(run[h])) = {}
        /\ \A n \in DOMAIN run[h].db.tables :
              IF n \in WriteTargets(CurrentConfig(run[h]))
              THEN /\ run'[h].db.tables[n].cols = run[h].db.tables[n].cols
                   /\ IsPrefixOf(run[h].db.tables[n].rows, run'[h].db.tables[n].rows)
              ELSE run'[h].db.tables[n] = run[h].db.tables[n]

\* C37: the write of a source table's records only adds rows, and only to
\* the table's data table and to the junction tables of its link fields:
\* every other data table, the junction tables of other tables and the two
\* metadata tables are left as they were.
C37_WriteLeavesOtherTables == [][\A h \in GenHandlers : WriteFrame(h)]_vars

\* Tasks and then Projects have been written into one file: the rows and
\* the junction rows of Tasks are still there after the write of Projects.
C37_Witness ==
    /\ world = TasksBase
    /\ Len(run[1].tlog) = 2
    /\ RowIds(run[1].db, run[1].tlog[1].sqliteName) = {"rec1", "rec2"}
    /\ RowIds(run[1].db, run[1].tlog[2].sqliteName) = {"p1", "p2"}
    /\ Len(TableOf(run[1].db, run[1].viewerTables[1].fields[3].junctionTable).rows) = 3

-----------------------------------------------------------------------------
(* The temporary file at the end of a run                                  *)

\* C38: a run that created its temporary file and has ended has deleted
\* it, whether it sent the file or an error; and while the file of a run
\* that succeeds is not yet read and sent, it is on disk.
C38_TempFileDeletedAtEnd ==
    \A h \in GenHandlers :
        /\ (run[h].pc = "done" /\ run[h].tempDbFilePath # 0)
              => run[h].tempDbFilePath \notin fs.files
        /\ run[h].pc = "readWait" => run[h].tempDbFilePath \in fs.files

=============================================================================
